---- MODULE Spec2Model ----
(***************************************************************************)
(* Model of the multi-agent communication subsystem                        *)
(* (superpowers/skills/agent-communication/scripts): the agent daemon      *)
(* agent.py and the client CLI chat.py.                                    *)
(*                                                                         *)
(* The specifications of this module:                                      *)
(*   Spec        the fabric at message level: daemons start, serve         *)
(*               commands, deliver to peers, shut down and crash;          *)
(*   SpecUnread  one daemon's handler threads statement by statement       *)
(*               (queue, wakeup event, .unread-messages);                  *)
(*   SpecReg     the registry file and daemon startup/exit step by step    *)
(*               (open, flock, read, write, probe, bind, cleanup);         *)
(*   SpecQueue   one daemon's bounded queue under a stream of messages;    *)
(*   SpecOrder   a sender's concurrent send handlers and one recipient;    *)
(*   SpecSend    one send statement by statement while peers shut down;    *)
(*   SpecFrame   frames read chunk by chunk by the daemon and by chat.py;  *)
(*   SpecCli     one invocation of chat.py and its exit code;              *)
(*   SpecLock    one daemon's threads around Agent.members and its lock;   *)
(*   SpecRecv    one daemon handed arbitrary remote_message envelopes.     *)
(***************************************************************************)
EXTENDS Integers, Sequences, FiniteSets, TLC

VARIABLES
    \* ---- Spec: the fabric ----
    registry,   \* registry.json: the names listed, in dict (insertion) order
    joined,     \* joined[n]: joined_at of n's registry entry, 0 without one
    sockFile,   \* sockFile[n]: <n>.sock exists in the chat directory
    main,       \* main[n]: main thread of daemon n: [pc, bound, code]
    queue,      \* queue[n]: Agent.message_queue
    members,    \* members[n]: Agent.members (names, in dict order)
    event,      \* event[n]: Agent.message_event is set
    unread,     \* unread[n]: <<>> when .unread-messages is absent, else <<count>>
    running,    \* running[n]: Agent.running
    cmd,        \* cmd[n]: the handler thread serving a command: idle or recv_wait
    reply,      \* the latest reply a client got back, and from which daemon
    traffic,    \* traffic[n]: envelopes n dispatched since its last receive reply
    ops,        \* launches, signals, kills, commands and delivery faults so far
    \* ---- SpecUnread: one daemon's handler threads ----
    u_queue,    \* Agent.message_queue (messages named by their handler thread)
    u_event,    \* Agent.message_event is set
    u_file,     \* .unread-messages: <<>> when absent, else <<count>>
    u_thr,      \* u_thr[i]: connection handler thread i
    \* ---- SpecReg: daemon processes against the registry file ----
    r_disk,     \* registry.json as it is on disk: [kind, names, len]
    r_lock,     \* r_lock[p]: the advisory lock process p holds on the file
    r_sock,     \* r_sock[n]: 0 when <n>.sock is absent, else the binder
    r_proc,     \* r_proc[p]: daemon process p's position and locals
    \* ---- SpecQueue: one daemon's inbound queue under a stream of messages ----
    q_queue,    \* Agent.message_queue (messages named by their arrival number)
    q_count,    \* messages enqueued so far
    q_mark,     \* q_count when a receive last drained the queue
    q_resp,     \* what handle_remote_message returned for the latest message
    \* ---- SpecOrder: a sender's concurrent send handlers, one recipient ----
    o_thr,      \* o_thr[i]: the sender's handler thread for the i-th accepted send
    o_queue,    \* the recipient's message_queue (messages named by their send)
    o_batch,    \* the recipient's receive batches so far, concatenated
    \* ---- SpecSend: one send, statement by statement, while peers shut down ----
    s_reg,      \* registry.json: the peers listed (the sender's entry stays)
    s_peer,     \* s_peer[t]: peer t's process: serving, leaving, unlisted, ...
    s_pc,       \* the sender's command handler thread
    s_todo,     \* members_to_send still to be attempted
    s_members,  \* the sender's Agent.members
    s_queue,    \* the depth of the sender's message_queue
    s_acc,      \* delivered / failed of the send in progress
    s_failed,   \* the failed names of the latest send reply
    s_reply,    \* the latest reply the sender's client got
    \* ---- SpecFrame: frames read chunk by chunk, connection by connection ----
    f_alive,    \* the daemon process is alive
    f_pc,       \* where the reader of the current connection is
    f_conn,     \* the current connection: who reads, and the declared length
    f_hdr,      \* len(length_data)
    f_got,      \* len(message_data) / len(response_data)
    f_out,      \* how the latest connection ended
    f_failed,   \* how the latest failing daemon handler failed
    \* ---- SpecCli: one invocation of chat.py ----
    c_inv,      \* the command line
    c_world,    \* the socket file and what the daemon answers
    c_out,      \* the exit code and the last response send_command returned
    \* ---- SpecLock: one daemon's threads around Agent.members ----
    l_members,  \* Agent.members: the names cached
    l_lock,     \* Agent.members_lock: 0 when free, else the thread holding it
    l_thr,      \* l_thr[i]: thread i: [kind, pc, target, got]
    l_acc,      \* the latest access to Agent.members: [thr, op, line, held]
    \* ---- SpecRecv: daemon A handed arbitrary remote_message envelopes ----
    v_world,    \* the daemons' queue, members, event, unread and traffic
    v_resp      \* what handle_remote_message returned for the latest envelope

fabricVars == <<registry, joined, sockFile, main, queue, members, event, unread,
                running, cmd, reply, traffic, ops>>

unreadVars == <<u_queue, u_event, u_file, u_thr>>

regVars == <<r_disk, r_lock, r_sock, r_proc>>

queueVars == <<q_queue, q_count, q_mark, q_resp>>

orderVars == <<o_thr, o_queue, o_batch>>

sendVars == <<s_reg, s_peer, s_pc, s_todo, s_members, s_queue, s_acc, s_failed,
              s_reply>>

frameVars == <<f_alive, f_pc, f_conn, f_hdr, f_got, f_out, f_failed>>

cliVars == <<c_inv, c_world, c_out>>

lockVars == <<l_members, l_lock, l_thr, l_acc>>

recvVars == <<v_world, v_resp>>

vars == <<fabricVars, unreadVars, regVars, queueVars, orderVars, sendVars,
          frameVars, cliVars, lockVars, recvVars>>

\* what each specification leaves alone
exceptFabric == <<unreadVars, regVars, queueVars, orderVars, sendVars, frameVars,
                  cliVars, lockVars,
    recvVars>>

exceptUnread == <<fabricVars, regVars, queueVars, orderVars, sendVars, frameVars,
                  cliVars, lockVars,
    recvVars>>

exceptReg == <<fabricVars, unreadVars, queueVars, orderVars, sendVars, frameVars,
               cliVars, lockVars,
    recvVars>>

exceptQueue == <<fabricVars, unreadVars, regVars, orderVars, sendVars, frameVars,
                 cliVars, lockVars,
    recvVars>>

exceptOrder == <<fabricVars, unreadVars, regVars, queueVars, sendVars, frameVars,
                 cliVars, lockVars,
    recvVars>>

exceptSend == <<fabricVars, unreadVars, regVars, queueVars, orderVars, frameVars,
                cliVars, lockVars,
    recvVars>>

exceptFrame == <<fabricVars, unreadVars, regVars, queueVars, orderVars, sendVars,
                 cliVars, lockVars,
    recvVars>>

exceptCli == <<fabricVars, unreadVars, regVars, queueVars, orderVars, sendVars,
               frameVars, lockVars, recvVars>>

exceptLock == <<fabricVars, unreadVars, regVars, queueVars, orderVars, sendVars,
                frameVars, cliVars, recvVars>>

exceptRecv == <<fabricVars, unreadVars, regVars, queueVars, orderVars, sendVars,
                frameVars, cliVars, lockVars>>

\* ------------------------------------------------------------------ bounds
MaxOps == 5

MaxThreads == 3
\* daemon processes of SpecReg
MaxProcs == 3
\* messages arriving at the daemon of SpecQueue
MaxArrivals == 102
\* send commands accepted by the sender of SpecOrder
MaxSends == 3

Names == {"A", "B", "C"}
Contents == {"x", "y"}
Timeouts == {0, 5, 60}
Before(n) == IF n = "A" THEN {} ELSE IF n = "B" THEN {"A"} ELSE {"A", "B"}

\* deque(maxlen=100)
MAXLEN == 100

\* ------------------------------------------------------------ sequences
RECURSIVE SeqRemove(_, _)
SeqRemove(s, x) ==
    IF s = <<>> THEN <<>>
    ELSE IF Head(s) = x THEN SeqRemove(Tail(s), x)
    ELSE <<Head(s)>> \o SeqRemove(Tail(s), x)

SeqSet(s) == {s[i] : i \in 1..Len(s)}

\* dict[key] = value: a new key goes last, an existing key keeps its place
DictSet(s, x) == IF x \in SeqSet(s) THEN s ELSE Append(s, x)

\* ------------------------------------------------------------- messages
Msg(type, sender, content) ==
    [type |-> type, sender |-> sender, content |-> content]

\* the agent's --presentation, the content of its join
Presentation(n) == "presentation"

DequeAppend_Mutant(q, m) == Append(q, m)

\* deque.append on a deque with maxlen
DequeAppend(q, m) ==
    IF Len(q) >= MAXLEN THEN Append(Tail(q), m) ELSE Append(q, m)

\* --------------------------------------------------- handler threads
Threads == 1..MaxThreads

\* kind: free, remote or receive; msg: the type of the remote message
\* (self_message: a "message" whose sender is this daemon); count: the local
\* of update_unread_file; got: the local messages of handle_command
FreeThread == [kind |-> "free", pc |-> "free", msg |-> "", count |-> 0,
               got |-> <<>>]

\* ------------------------------------------------------- fabric: state
\* to: the daemon that replied; seen: the traffic a receive reply answers
\* timeout: the --timeout of a receive; exit: the exit code of chat.py
NoReply == [to |-> "", cmd |-> "none", status |-> "none", error |-> <<>>,
            delivered |-> <<>>, failed |-> <<>>, messages |-> <<>>,
            members |-> <<>>, queue_size |-> 0, seen |-> <<>>,
            timeout |-> 0, exit |-> 0]

\* chat.py cmd_send, cmd_receive, cmd_status, cmd_leave: the exit code
ExitCode(r) ==
    IF r.status # "ok" THEN 1
    ELSE IF r.cmd = "receive" /\ r.messages = <<>> THEN 2
    ELSE 0

Reply(d, r) == [r EXCEPT !.to = d, !.exit = ExitCode(r)]

\* chat.py send_command: s.settimeout(35.0)
CLIENT_TIMEOUT == 35

\* chat.py send_command: the client's socket timed out waiting for the reply
TimedOutReply(c) ==
    [NoReply EXCEPT !.cmd = c, !.status = "error",
                    !.error = <<"Cannot connect to agent: ", "timed out">>]

\* a daemon's command handler: idle, or a receive waiting on the event with
\* its timeout and whether its client is still connected
IdleCmd == [pc |-> "idle", timeout |-> 0, client |-> FALSE]

\* chat.py send_command: the server closed the connection without a reply
ClosedReply(c) ==
    [NoReply EXCEPT !.cmd = c, !.status = "error",
                    !.error = <<"Connection closed by server">>]

\* main thread: pc, whether local_sock is bound, exit code
Off == [pc |-> "off", bound |-> FALSE, code |-> 0]

Live(n) == main[n].pc \in {"binding", "serving", "exiting"}

\* a connect to n's path succeeds: the file is there and the process that
\* bound it is alive (listen backlog, whether or not accept is being called)
Listening(n) == sockFile[n] /\ main[n].bound /\ Live(n)

FabricInit ==
    /\ registry = <<>>
    /\ joined = [n \in Names |-> 0]
    /\ sockFile = [n \in Names |-> FALSE]
    /\ main = [n \in Names |-> Off]
    /\ queue = [n \in Names |-> <<>>]
    /\ members = [n \in Names |-> <<>>]
    /\ event = [n \in Names |-> FALSE]
    /\ unread = [n \in Names |-> <<>>]
    /\ running = [n \in Names |-> FALSE]
    /\ cmd = [n \in Names |-> IdleCmd]
    /\ reply = NoReply
    /\ traffic = [n \in Names |-> <<>>]
    /\ ops = 0

\* daemon processes of SpecReg and the --name values they are launched with
Procs == 1..MaxProcs

RegNames == {"A", "B"}

\* Agent.name of process p
ProcName(p) == r_proc[p].name

\* a process before it is launched
IdleProc == [pc |-> "idle", name |-> "", phase |-> "none", reg |-> {}, raised |-> FALSE,
             saw |-> "none", listening |-> FALSE, left |-> 0, why |-> "none",
             code |-> 0]

\* registry.json does not exist in a fresh chat directory
NoFile == [kind |-> "absent", names |-> {}, len |-> 0]

RegIdle ==
    /\ r_disk = NoFile
    /\ r_lock = [p \in Procs |-> "none"]
    /\ r_sock = [n \in RegNames |-> 0]
    /\ r_proc = [p \in Procs |-> IdleProc]

\* the handler threads before any connection is accepted
UnreadIdle ==
    /\ u_queue = <<>>
    /\ u_event = FALSE
    /\ u_file = <<>>
    /\ u_thr = [i \in Threads |-> FreeThread]

\* the queue of SpecQueue before any message
QueueIdle ==
    /\ q_queue = <<>>
    /\ q_count = 0
    /\ q_mark = 0
    /\ q_resp = "none"

\* the sender's handler threads of SpecOrder, in the order of acceptance
Sends == 1..MaxSends

OrderIdle ==
    /\ o_thr = [i \in Sends |-> "free"]
    /\ o_queue = <<>>
    /\ o_batch = <<>>

\* the peers of SpecSend
Peers == {"B", "C"}

\* the order of the registry's keys
PeerOrder == <<"B", "C">>

ListOf(S) == SelectSeq(PeerOrder, LAMBDA t : t \in S)

NoAcc == [delivered |-> {}, failed |-> {}]

S_NoReply == [cmd |-> "none", status |-> "none", delivered |-> {},
              failed |-> {}, members |-> {}]

\* every daemon registered and serving, A's queue drained
SendIdle ==
    /\ s_reg = Peers
    /\ s_peer = [t \in Peers |-> "serving"]
    /\ s_pc = "idle"
    /\ s_todo = <<>>
    /\ s_members = Peers
    /\ s_queue = 0
    /\ s_acc = NoAcc
    /\ s_failed = {}
    /\ s_reply = S_NoReply

\* recv_framed_message: MAX_MESSAGE_SIZE = 1024 * 1024
MAX_MESSAGE_SIZE == 1048576

\* recv_framed_message and send_command: conn.recv(min(4096, ...))
CHUNK == 4096

\* the readers of SpecFrame: the daemon's recv_framed_message under
\* _handle_connection, and the reply reader of chat.py send_command
Readers == {"daemon", "client"}

NoConn == [reader |-> "none", len |-> 0]

\* kind: what the payload decodes to; open: the client was still connected
\* when the reply was written; eof: recv returned b'' before the frame was
\* complete; report: what send_command returns
NoOut == [reader |-> "none", len |-> 0, consumed |-> 0, result |-> "none",
          kind |-> "none", dispatched |-> FALSE, reply |-> "none",
          open |-> FALSE, closed |-> FALSE, eof |-> FALSE, report |-> "none"]

FrameIdle ==
    /\ f_alive = TRUE
    /\ f_pc = "accept"
    /\ f_conn = NoConn
    /\ f_hdr = 0
    /\ f_got = 0
    /\ f_out = NoOut
    /\ f_failed = "none"

\* chat.py before it is run: no command line, no exit code
NoInv == [agent |-> FALSE, command |-> "none", message |-> FALSE,
          timeout |-> "default"]

CliIdle ==
    /\ c_inv = NoInv
    /\ c_world = [sock |-> FALSE, r1 |-> NoReply, r2 |-> NoReply]
    /\ c_out = [exit |-> -1, last |-> NoReply]

\* a thread of SpecLock that has not started
FreeLockThread == [kind |-> "free", pc |-> "free", target |-> "", got |-> {}]

\* no access to Agent.members yet
NoAccess == [thr |-> 0, op |-> "none", line |-> 0, held |-> FALSE]

\* the daemon after register: the members cache holds the peers listed
LockIdle ==
    /\ l_members = Peers
    /\ l_lock = 0
    /\ l_thr = [i \in Threads |-> FreeLockThread]
    /\ l_acc = NoAccess

\* daemon A serving, started alone: nothing queued, nobody cached
RecvIdle ==
    /\ v_world = [queue |-> [n \in Names |-> <<>>],
                  members |-> [n \in Names |-> <<>>],
                  event |-> [n \in Names |-> FALSE],
                  unread |-> [n \in Names |-> <<>>],
                  traffic |-> [n \in Names |-> <<>>]]
    /\ v_resp = "none"

Init ==
    /\ FabricInit /\ UnreadIdle /\ RegIdle /\ QueueIdle /\ OrderIdle
    /\ SendIdle
    /\ FrameIdle
    /\ CliIdle
    /\ LockIdle
    /\ RecvIdle

\* the daemons' memory and side-files, as one value the loops below thread
World == [queue |-> queue, members |-> members, event |-> event,
          unread |-> unread, traffic |-> traffic]

SetWorld(w) ==
    /\ queue' = w.queue
    /\ members' = w.members
    /\ event' = w.event
    /\ unread' = w.unread
    /\ traffic' = w.traffic

\* ------------------------------------------- unread side-file (fabric)
\* Agent.update_unread_file with the queue at depth count
update_unread_file(file, count) ==
    IF count > 0 THEN <<count>> ELSE file

\* Agent.clear_unread_file
clear_unread_file(file) == <<>>

\* ------------------------------------------------ reception (fabric)
hrm_queue_Mutant(q, self, m) ==
    IF m.type \in {"join", "leave", "message"} THEN DequeAppend(q, m) ELSE q

\* Agent.handle_remote_message: the queue of daemon self after message m
hrm_queue(q, self, m) ==
    IF m.type = "join" THEN DequeAppend(q, m)
    ELSE IF m.type = "leave" THEN DequeAppend(q, m)
    ELSE IF m.type = "message"
         THEN IF m.sender # self THEN DequeAppend(q, m) ELSE q
    ELSE q

\* Agent.handle_remote_message: the members cache of daemon self after m
hrm_members(mem, self, m) ==
    IF m.type = "join"
    THEN IF m.sender # "" /\ m.sender # self
         THEN DictSet(mem, m.sender) ELSE mem
    ELSE IF m.type = "leave" THEN SeqRemove(mem, m.sender)
    ELSE mem

\* Agent.handle_remote_message run by daemon t on message m; note is what
\* the sender was asked to do, kept in traffic
handle_remote_message(w, t, m, note) ==
    LET q == hrm_queue(w.queue[t], t, m)
    IN  [w EXCEPT !.queue[t] = q,
                  !.members[t] = hrm_members(@, t, m),
                  !.unread[t] = update_unread_file(@, Len(q)),
                  !.event[t] = TRUE,
                  !.traffic[t] = Append(@, note)]

\* ------------------------------------------------- delivery (fabric)
\* What a connect + frame exchange with t's endpoint can come to.
\*   unregistered  t is not in the registry
\*   enoent        no socket file at t's path (FileNotFoundError)
\*   refused       a socket file nobody listens on (ConnectionRefusedError)
\*   busy_timeout  t is inside its signal handler and accepts nothing
\*   reset         t exits with the connection still in its backlog
\*   ok            t's handler dispatches the envelope and replies
\*   timeout       no reply within 5 s, envelope never dispatched
\*   timeout_late  no reply within 5 s, envelope dispatched afterwards
\*   eof           the connection is closed before any reply
\*   oversize      the reply frame declares more than 1 MiB
\*   malformed     the reply payload is not JSON
FaultOutcomes == {"timeout", "timeout_late", "eof", "oversize", "malformed"}

Outcomes(t) ==
    IF t \notin SeqSet(registry) THEN {"unregistered"}
    ELSE IF ~sockFile[t] THEN {"enoent"}
    ELSE IF ~Listening(t) THEN {"refused"}
    ELSE IF main[t].pc # "serving" THEN {"busy_timeout", "reset"}
    ELSE {"ok"} \cup FaultOutcomes

NFaults(ocs) == Cardinality({i \in 1..Len(ocs) : ocs[i] \in FaultOutcomes})

\* the outcomes a loop over the peers todo can meet, with at most budget
\* injected faults
RECURSIVE OutcomeSeqs(_, _)
OutcomeSeqs(todo, budget) ==
    IF todo = <<>> THEN {<<>>}
    ELSE UNION {
           {<<oc>> \o rest :
              rest \in OutcomeSeqs(Tail(todo),
                         IF oc \in FaultOutcomes THEN budget - 1 ELSE budget)} :
           oc \in {o \in Outcomes(Head(todo)) :
                     o \in FaultOutcomes => budget > 0}}

\* the envelope reaches t's handle_remote_message
Dispatched(oc) == oc \in {"ok", "timeout_late"}

\* send_to_agent's except clause: sock.error (OSError) and its subclasses
CaughtOutcomes == {"enoent", "refused", "busy_timeout", "reset",
                   "timeout", "timeout_late"}

\* recv_framed_message raises ValueError, which send_to_agent does not catch
RaisingOutcomes == {"oversize", "malformed"}

\* send_to_agent returns (True, None)
Succeeds(oc) == oc \in {"ok", "eof"}

\* send_to_agent's error text
Reason(t, oc) ==
    IF oc = "unregistered" THEN <<"Agent ", t, " not in registry">>
    ELSE <<oc>>

\* Agent.send_to_agent(t, m) run by daemon d with outcome oc: the world after
send_to_agent(w, d, t, m, oc, note) ==
    LET w1 == IF Dispatched(oc) THEN handle_remote_message(w, t, m, note) ELSE w
    IN  IF oc \in CaughtOutcomes
        THEN [w1 EXCEPT !.members[d] = SeqRemove(@, t)]
        ELSE w1

\* "for agent_name in ...: self.send_to_agent(agent_name, msg)": the world
\* after, who was delivered to, who failed and why, and whether an
\* exception left the loop.  swallow: the loop body is try / except: pass.
RECURSIVE Broadcast(_, _, _, _, _, _, _)
Broadcast(w, d, todo, m, ocs, note, swallow) ==
    IF todo = <<>>
    THEN [w |-> w, delivered |-> <<>>, failed |-> <<>>, raised |-> FALSE]
    ELSE LET t == Head(todo)
             oc == Head(ocs)
         IN  IF oc \in RaisingOutcomes /\ ~swallow
             THEN [w |-> w, delivered |-> <<>>, failed |-> <<>>, raised |-> TRUE]
             ELSE LET r == Broadcast(send_to_agent(w, d, t, m, oc, note), d,
                                     Tail(todo), m, Tail(ocs), note, swallow)
                  IN  [r EXCEPT
                         !.delivered = IF Succeeds(oc) THEN <<t>> \o @ ELSE @,
                         !.failed = IF Succeeds(oc) THEN @
                                    ELSE <<<<t, Reason(t, oc)>>>> \o @]

Note(kind, d, content) == [kind |-> kind, from |-> d, content |-> content]

\* --------------------------------------------- startup and exit (fabric)
\* check_agent_alive: the socket file exists and a connect succeeds
check_agent_alive(n) == Listening(n)

\* Agent.register, up to the registry write: the registry it writes
register_registry(reg, n) == Append(SeqRemove(reg, n), n)

cleanup_registry_Mutant(reg, n) == reg

\* Agent.cleanup: the registry after read_registry / del / write_registry
cleanup_registry(reg, n) == SeqRemove(reg, n)

register_joined_Mutant(j, n, now) ==
    IF j[n] # 0 THEN j ELSE [j EXCEPT ![n] = now]

\* Agent.register: the entry written carries joined_at = datetime.now(UTC),
\* also when it replaces a stale entry
register_joined(j, n, now) == [j EXCEPT ![n] = now]

\* Agent.__init__
Fresh(w, n) ==
    [w EXCEPT !.queue[n] = <<>>, !.members[n] = <<>>, !.event[n] = FALSE,
              !.traffic[n] = <<>>]

\* one more launch, signal, kill or command, and the faults it meets
Op(ocs) == ops < MaxOps /\ ops' = ops + 1 + NFaults(ocs)

\* the faults still allowed
Budget == MaxOps - ops - 1

\* The names are interchangeable: first launches are taken in name order.
FirstLaunchInOrder(n) ==
    main[n].pc = "off" => \A m \in Before(n) : main[m].pc # "off"

\* main() and Agent.run as far as register(): Agent.__init__,
\* atexit.register, the registry read / probe / write, the members cache and
\* the join broadcast.
Launch(n) ==
    /\ main[n].pc \in {"off", "exited", "crashed"}
    /\ FirstLaunchInOrder(n)
    /\ ops < MaxOps
    /\ running' = [running EXCEPT ![n] = TRUE]
    /\ IF n \in SeqSet(registry) /\ check_agent_alive(n)
       THEN \* "already in use": sys.exit(1), atexit runs cleanup
            /\ main' = [main EXCEPT ![n] =
                  [pc |-> "exiting", bound |-> FALSE, code |-> 1]]
            /\ SetWorld(Fresh(World, n))
            /\ Op(<<>>)
            /\ UNCHANGED <<registry, joined>>
       ELSE LET reg == register_registry(registry, n)
                mem == SeqRemove(reg, n)
                w0 == [Fresh(World, n) EXCEPT !.members[n] = mem]
            IN  \E ocs \in OutcomeSeqs(mem, Budget) :
                  LET r == Broadcast(w0, n, mem, Msg("join", n, Presentation(n)),
                                     ocs, Note("join", n, Presentation(n)), FALSE)
                  IN  /\ registry' = reg
                      /\ joined' = register_joined(joined, n, ops + 1)
                      /\ SetWorld(r.w)
                      /\ Op(ocs)
                      /\ main' = [main EXCEPT ![n] =
                            IF r.raised
                            THEN \* main(): except Exception: sys.exit(1)
                                 [pc |-> "exiting", bound |-> FALSE, code |-> 1]
                            ELSE [pc |-> "binding", bound |-> FALSE, code |-> 0]]
    /\ UNCHANGED <<sockFile, cmd, reply>>

\* Agent.start_local_server: unlink a stale file, bind, listen
start_local_server(n) ==
    /\ main[n].pc = "binding"
    /\ sockFile' = [sockFile EXCEPT ![n] = TRUE]
    /\ main' = [main EXCEPT ![n] = [@ EXCEPT !.pc = "serving", !.bound = TRUE]]
    /\ UNCHANGED <<registry, joined, queue, members, event, unread, running, cmd,
                   reply, traffic, ops>>

\* main.signal_handler on SIGINT/SIGTERM, as far as the leave broadcast
signal_handler(n) ==
    /\ main[n].pc \in {"binding", "serving"}
    /\ ops < MaxOps
    /\ running' = [running EXCEPT ![n] = FALSE]
    /\ \E ocs \in OutcomeSeqs(members[n], Budget) :
         LET r == Broadcast(World, n, members[n], Msg("leave", n, ""), ocs,
                            Note("leave", n, ""), TRUE)
         IN  /\ SetWorld(r.w)
             /\ Op(ocs)
    /\ main' = [main EXCEPT ![n] = [@ EXCEPT !.pc = "exiting", !.code = 0]]
    /\ UNCHANGED <<registry, joined, sockFile, cmd, reply>>

\* The process is gone, and its memory with it.  A handler thread is a
\* daemon thread: it dies with the process, and its client reads end-of-file.
ProcessGone(n) ==
    /\ cmd' = [cmd EXCEPT ![n] = IdleCmd]
    /\ queue' = [queue EXCEPT ![n] = <<>>]
    /\ members' = [members EXCEPT ![n] = <<>>]
    /\ event' = [event EXCEPT ![n] = FALSE]
    /\ running' = [running EXCEPT ![n] = FALSE]
    /\ traffic' = [traffic EXCEPT ![n] = <<>>]
    /\ reply' = IF cmd[n].pc = "recv_wait" /\ cmd[n].client
                THEN Reply(n, [ClosedReply("receive") EXCEPT
                                  !.timeout = cmd[n].timeout])
                ELSE reply

\* Agent.cleanup (from signal_handler and from atexit), then the process ends
cleanup(n) ==
    /\ main[n].pc = "exiting"
    /\ registry' = cleanup_registry(registry, n)
    /\ joined' = [joined EXCEPT ![n] = 0]
    /\ unread' = [unread EXCEPT ![n] = clear_unread_file(@)]
    /\ sockFile' = [sockFile EXCEPT ![n] = FALSE]
    /\ main' = [main EXCEPT ![n] = [@ EXCEPT !.pc = "exited", !.bound = FALSE]]
    /\ ProcessGone(n)
    /\ UNCHANGED <<ops>>

\* SIGKILL: nothing is cleaned up
Crash(n) ==
    /\ Live(n)
    /\ Op(<<>>)
    /\ main' = [main EXCEPT ![n] =
          [pc |-> "crashed", bound |-> FALSE, code |-> 137]]
    /\ ProcessGone(n)
    /\ UNCHANGED <<registry, joined, sockFile, unread>>

\* ------------------------------------------------- commands (fabric)
\* a client connected and the accept loop started a handler for it
Accepting(d) == main[d].pc = "serving" /\ cmd[d].pc = "idle"

SendRefused_Mutant(q) == Len(q) > 1

\* handle_command 'send': the unread gate refuses when the queue is non-empty
SendRefused(q) == q # <<>>

\* the gate's reply
UnreadError(q) ==
    [NoReply EXCEPT !.cmd = "send", !.status = "error",
        !.error = <<"Cannot send: ", Len(q),
                    " unread message(s). Use \"receive\" first.">>]

RefreshMembers_Mutant(reg, d) == reg

\* send_message_to_agents: the members cache refreshed from the registry
RefreshMembers(reg, d) == SeqRemove(reg, d)

BuildMessage_Mutant(d, content) == Msg("message", d, "")

\* send_message_to_agents: the message built for content
BuildMessage(d, content) == Msg("message", d, content)

\* handle_command 'send': the reply after send_message_to_agents returned
SendReply(delivered, failed) ==
    [NoReply EXCEPT !.cmd = "send", !.status = "ok",
                    !.delivered = delivered, !.failed = failed]

send_message_to_agents_Mutant(d, content, ocs) ==
    LET mem == RefreshMembers(registry, d)
    IN  IF mem = <<>>
        THEN Broadcast([World EXCEPT !.members[d] = mem], d, mem,
                       BuildMessage(d, content), ocs, Note("send", d, content),
                       FALSE)
        ELSE Broadcast([World EXCEPT !.members[d] = mem], d, Tail(mem),
                       BuildMessage(d, content), Tail(ocs),
                       Note("send", d, content), FALSE)

\* send_message_to_agents(content) run by daemon d, the peers answering ocs
send_message_to_agents(d, content, ocs) ==
    LET mem == RefreshMembers(registry, d)
    IN  Broadcast([World EXCEPT !.members[d] = mem], d, mem,
                  BuildMessage(d, content), ocs, Note("send", d, content), FALSE)

\* handle_command 'send', and _handle_connection around it
CmdSend(d, c) ==
    /\ Accepting(d)
    /\ ops < MaxOps
    /\ IF SendRefused(queue[d])
       THEN /\ reply' = Reply(d, UnreadError(queue[d]))
            /\ Op(<<>>)
            /\ UNCHANGED <<queue, members, event, unread, traffic>>
       ELSE \E ocs \in OutcomeSeqs(RefreshMembers(registry, d), Budget) :
              LET r == send_message_to_agents(d, c, ocs)
              IN  /\ SetWorld(r.w)
                  /\ Op(ocs)
                  /\ reply' = IF r.raised
                              THEN \* except Exception: no reply is written
                                   Reply(d, ClosedReply("send"))
                              ELSE Reply(d, SendReply(r.delivered, r.failed))
    /\ UNCHANGED <<registry, joined, sockFile, main, running, cmd>>

ReceiveReply(messages, timeout) ==
    [NoReply EXCEPT !.cmd = "receive", !.status = "ok", !.messages = messages,
                    !.timeout = timeout]

\* "while self.message_queue: messages.append(self.message_queue.popleft())"
RECURSIVE DrainLoop(_, _)
DrainLoop(q, messages) ==
    IF q = <<>> THEN messages
    ELSE DrainLoop(Tail(q), Append(messages, Head(q)))

Drain_Mutant(q) == IF q = <<>> THEN q ELSE <<Head(q)>>

\* handle_command 'receive': the batch drained from queue q
Drain(q) == DrainLoop(q, <<>>)

Waits_Mutant(q, timeout) == q = <<>>

\* handle_command 'receive': "if not messages:" the handler blocks in
\* message_event.wait(timeout); wait(0) returns at once, and the event was
\* cleared just before
Waits(q, timeout) == q = <<>> /\ timeout # 0

\* the receive handler replies with batch: queue emptied, side-file cleared;
\* the reply reaches the client when it is still connected
ReceiveDone(d, batch, timeout, client) ==
    /\ queue' = [queue EXCEPT ![d] = <<>>]
    /\ unread' = [unread EXCEPT ![d] = clear_unread_file(@)]
    /\ reply' = IF client
                THEN Reply(d, [ReceiveReply(batch, timeout) EXCEPT
                                  !.seen = traffic[d]])
                ELSE reply
    /\ traffic' = [traffic EXCEPT ![d] = <<>>]

\* handle_command 'receive' up to the wait on the event
CmdReceive(d, timeout) ==
    /\ Accepting(d)
    /\ Op(<<>>)
    /\ event' = [event EXCEPT ![d] = FALSE]
    /\ IF Waits(queue[d], timeout)
       THEN /\ cmd' = [cmd EXCEPT ![d] =
                  [pc |-> "recv_wait", timeout |-> timeout, client |-> TRUE]]
            /\ UNCHANGED <<queue, unread, reply, traffic>>
       ELSE /\ ReceiveDone(d, Drain(queue[d]), timeout, TRUE)
            /\ UNCHANGED cmd
    /\ UNCHANGED <<registry, joined, sockFile, main, members, running>>

\* chat.py send_command: no reply within CLIENT_TIMEOUT seconds; the client
\* reports an error and closes, the handler goes on waiting
ClientTimeout(d) ==
    /\ cmd[d].pc = "recv_wait"
    /\ cmd[d].client
    /\ cmd[d].timeout > CLIENT_TIMEOUT
    /\ reply' = Reply(d, [TimedOutReply("receive") EXCEPT
                             !.timeout = cmd[d].timeout])
    /\ cmd' = [cmd EXCEPT ![d].client = FALSE]
    /\ UNCHANGED <<registry, joined, sockFile, main, queue, members, event, unread,
                   running, traffic, ops>>

\* message_event.wait returned True: drain again and reply
RecvWake(d) ==
    /\ cmd[d].pc = "recv_wait"
    /\ event[d]
    /\ ReceiveDone(d, Drain(queue[d]), cmd[d].timeout, cmd[d].client)
    /\ cmd' = [cmd EXCEPT ![d] = IdleCmd]
    /\ UNCHANGED <<registry, joined, sockFile, main, members, event, running, ops>>

\* message_event.wait timed out, which takes timeout seconds: reply with
\* the empty batch
RecvTimeout(d) ==
    /\ cmd[d].pc = "recv_wait"
    /\ ~event[d]
    /\ cmd[d].client => cmd[d].timeout <= CLIENT_TIMEOUT
    /\ unread' = [unread EXCEPT ![d] = clear_unread_file(@)]
    /\ reply' = IF cmd[d].client
                THEN Reply(d, [ReceiveReply(<<>>, cmd[d].timeout) EXCEPT
                                  !.seen = traffic[d]])
                ELSE reply
    /\ traffic' = [traffic EXCEPT ![d] = <<>>]
    /\ cmd' = [cmd EXCEPT ![d] = IdleCmd]
    /\ UNCHANGED <<registry, joined, sockFile, main, queue, members, event, running,
                   ops>>

\* handle_command 'status': the reply
StatusReply_Mutant(mem, q) ==
    [NoReply EXCEPT !.cmd = "status", !.status = "ok",
                    !.members = mem, !.queue_size = Len(q) + 1]

StatusReply(mem, q) ==
    [NoReply EXCEPT !.cmd = "status", !.status = "ok",
                    !.members = mem, !.queue_size = Len(q)]

\* handle_command 'status'
CmdStatus(d) ==
    /\ Accepting(d)
    /\ Op(<<>>)
    /\ reply' = Reply(d, StatusReply(members[d], queue[d]))
    /\ UNCHANGED <<registry, joined, sockFile, main, queue, members, event, unread,
                   running, cmd, traffic>>

\* the commands chat.py sends that handle_command has no branch for
OtherCommands == {"leave"}

\* handle_command: the final else
UnknownCommand(c) ==
    [NoReply EXCEPT !.cmd = c, !.status = "error",
                    !.error = <<"Unknown command: ", c>>]

\* handle_command for a command that is not send, receive or status
CmdOther(d, c) ==
    /\ Accepting(d)
    /\ Op(<<>>)
    /\ reply' = Reply(d, UnknownCommand(c))
    /\ UNCHANGED <<registry, joined, sockFile, main, queue, members, event, unread,
                   running, cmd, traffic>>

Next ==
    \/ \E n \in Names : Launch(n) /\ UNCHANGED exceptFabric
    \/ \E n \in Names : start_local_server(n) /\ UNCHANGED exceptFabric
    \/ \E n \in Names : signal_handler(n) /\ UNCHANGED exceptFabric
    \/ \E n \in Names : cleanup(n) /\ UNCHANGED exceptFabric
    \/ \E n \in Names : Crash(n) /\ UNCHANGED exceptFabric
    \/ \E d \in Names, c \in Contents : CmdSend(d, c) /\ UNCHANGED exceptFabric
    \/ \E d \in Names, t \in Timeouts : CmdReceive(d, t) /\ UNCHANGED exceptFabric
    \/ \E d \in Names : ClientTimeout(d) /\ UNCHANGED exceptFabric
    \/ \E d \in Names : RecvWake(d) /\ UNCHANGED exceptFabric
    \/ \E d \in Names : RecvTimeout(d) /\ UNCHANGED exceptFabric
    \/ \E d \in Names : CmdStatus(d) /\ UNCHANGED exceptFabric
    \/ \E d \in Names, c \in OtherCommands : CmdOther(d, c) /\ UNCHANGED exceptFabric

Spec == Init /\ [][Next]_vars

\* ------------------------------------------------------ claims (fabric)
FailedNames(r) == {r.failed[i][1] : i \in 1..Len(r.failed)}

\* C1. Unread gate: a send handled while the queue holds N > 0 messages is
\* answered {status: error, error: 'Cannot send: N unread message(s). Use
\* "receive" first.'} with N the queue depth; no peer's queue, members cache,
\* side-file or event changes, and the daemon's own queue and members cache
\* stay as they were.
C1_UnreadGate ==
    [][\A d \in Names, c \in Contents :
         (CmdSend(d, c) /\ queue[d] # <<>>) =>
             /\ reply' = [NoReply EXCEPT
                    !.to = d, !.cmd = "send", !.status = "error", !.exit = 1,
                    !.error = <<"Cannot send: ", Len(queue[d]),
                                " unread message(s). Use \"receive\" first.">>]
             /\ UNCHANGED <<queue, members, event, unread, traffic, registry>>
      ]_vars

\* a send was refused with two messages unread
C1_Witness ==
    /\ reply.cmd = "send"
    /\ reply.status = "error"
    /\ Len(reply.error) = 3
    /\ reply.error[2] = 2
    /\ Len(queue[reply.to]) = 2

\* C2. Round trip: when the only envelope daemon R dispatched before a
\* receive is the message of one send of content c accepted by daemon S, the
\* receive returns exactly one message, of type "message", from S, with
\* content c.
C2_RoundTrip ==
    \A S \in Names, R \in Names, c \in Contents :
        ( /\ reply.cmd = "receive"
          /\ reply.status = "ok"
          /\ reply.to = R
          /\ reply.seen = <<[kind |-> "send", from |-> S, content |-> c]>> )
        => reply.messages = <<[type |-> "message", sender |-> S, content |-> c]>>

\* B's receive answered after exactly one send, of "y", from A
C2_Witness ==
    /\ reply.cmd = "receive"
    /\ reply.to = "B"
    /\ reply.seen = <<[kind |-> "send", from |-> "A", content |-> "y"]>>
    /\ reply.messages # <<>>

\* C9. Per-peer delivery failures never abort or downgrade a send: an
\* accepted send replies status ok, delivered_to and failed together name
\* every peer of the refreshed members cache, and every peer named in
\* delivered_to dispatched the envelope.
C9_SendNeverAborts ==
    [][\A d \in Names, c \in Contents :
         (CmdSend(d, c) /\ queue[d] = <<>>) =>
             /\ reply'.cmd = "send"
             /\ reply'.status = "ok"
             /\ SeqSet(reply'.delivered) \cup FailedNames(reply')
                    = SeqSet(RefreshMembers(registry, d))
             /\ \A t \in SeqSet(reply'.delivered) : traffic'[t] # traffic[t]
      ]_vars

\* C10. A leave command makes the daemon shut down and is answered
\* {status: ok}.
C10_LeaveShutsDown ==
    reply.cmd = "leave" =>
        /\ reply.status = "ok"
        /\ main[reply.to].pc \in {"exiting", "exited"}

\* how often name n is listed in registry reg
Count(reg, n) == Cardinality({i \in 1..Len(reg) : reg[i] = n})

\* queue q holds a join message from sender n
HasJoinFrom(q, n) ==
    \E i \in 1..Len(q) : q[i].type = "join" /\ q[i].sender = n

\* A and B are serving, A was serving when B registered (it dispatched B's
\* join and has not received since), and C was never launched
StartedAThenB ==
    /\ main["A"].pc = "serving"
    /\ main["B"].pc = "serving"
    /\ main["C"].pc = "off"
    /\ traffic["A"] = <<Note("join", "B", Presentation("B"))>>

\* C11. Two-party startup: after A has started and then B has started, with
\* nothing else done, the registry lists B, A has received a join from B and
\* B has received a join from A.
C11_TwoPartyStartup ==
    (StartedAThenB /\ ops = 2)
    => /\ "B" \in SeqSet(registry)
       /\ HasJoinFrom(queue["A"], "B")
       /\ HasJoinFrom(queue["B"], "A")

\* C12. Two-party ping-pong: start A, start B, send on A, receive on B with
\* timeout 5 and nothing in between: the send is accepted and delivered to
\* B, and the receive returns exactly that message and leaves no side-file.
C12_PingPong ==
    /\ ( /\ StartedAThenB
         /\ ops = 3
         /\ reply.to = "A"
         /\ reply.cmd = "send" )
       => /\ reply.status = "ok"
          /\ reply.delivered = <<"B">>
    /\ \A c \in Contents :
         ( /\ ops = 4
           /\ reply.to = "B"
           /\ reply.cmd = "receive"
           /\ reply.timeout = 5
           /\ reply.seen = <<Note("send", "A", c)>> )
         => /\ reply.messages = <<Msg("message", "A", c)>>
            /\ unread["B"] = <<>>

C16_TimeoutIsEmptyOk ==
    [][\A d \in Names :
         RecvTimeout(d)
         => /\ reply'.to = d
            /\ reply'.cmd = "receive"
            /\ reply'.status = "ok"
            /\ reply'.messages = <<>>
            /\ reply'.exit = 2
      ]_vars

\* C17. A receive with timeout 0 never waits: it replies at once with the
\* whole queue, in order (the empty batch when nothing is queued), and
\* leaves the queue empty.
C17_TimeoutZero ==
    [][\A d \in Names :
         CmdReceive(d, 0)
         => /\ cmd'[d].pc = "idle"
            /\ reply'.to = d
            /\ reply'.cmd = "receive"
            /\ reply'.status = "ok"
            /\ reply'.messages = queue[d]
            /\ queue'[d] = <<>>
      ]_vars

\* a receive with timeout 0 returned two queued messages
C17_Witness ==
    /\ reply.cmd = "receive"
    /\ reply.timeout = 0
    /\ reply.status = "ok"
    /\ Len(reply.messages) = 2

\* C18. A send accepted while the registry lists nobody but the sender is
\* answered {status: ok, delivered_to: [], failed: {}} and reaches no
\* daemon: no queue, event, side-file or dispatch record changes and no
\* delivery is attempted.
C18_SendNoPeers ==
    [][\A d \in Names, c \in Contents :
         ( /\ CmdSend(d, c)
           /\ queue[d] = <<>>
           /\ SeqSet(registry) \subseteq {d} )
         => /\ reply'.to = d
            /\ reply'.cmd = "send"
            /\ reply'.status = "ok"
            /\ reply'.delivered = <<>>
            /\ reply'.failed = <<>>
            /\ UNCHANGED <<queue, event, unread, traffic>>
            /\ ops' = ops + 1
      ]_vars

\* the only registered daemon was answered ok with nothing delivered
C18_Witness ==
    /\ reply.cmd = "send"
    /\ reply.status = "ok"
    /\ reply.delivered = <<>>
    /\ reply.failed = <<>>
    /\ registry = <<reply.to>>

\* C19. status is read-only: it leaves the queue, the members cache, the
\* event, the side-file and the registry as they were and reports the
\* queue depth and the members cache as they are.
C19_StatusReadOnly ==
    [][\A d \in Names :
         CmdStatus(d)
         => /\ UNCHANGED <<queue, members, event, unread, registry, joined>>
            /\ reply'.cmd = "status"
            /\ reply'.queue_size = Len(queue[d])
            /\ reply'.members = members[d]
      ]_vars

\* a status reported one queued message and a member
C19_Witness ==
    /\ reply.cmd = "status"
    /\ reply.status = "ok"
    /\ reply.queue_size = 1
    /\ reply.members # <<>>

\* C23. Cooperative shutdown: when a daemon exits after SIGINT/SIGTERM
\* while a receive handler of it is in flight with its client connected,
\* the handler has written its reply: the client holds a receive reply with
\* status ok from that daemon.
C23_CooperativeShutdown ==
    [][\A n \in Names :
          ( /\ main[n].pc = "exiting"
            /\ main[n].code = 0
            /\ main'[n].pc = "exited"
            /\ cmd[n].pc = "recv_wait"
            /\ cmd[n].client )
          => /\ reply'.to = n
             /\ reply'.cmd = "receive"
             /\ reply'.status = "ok"]_vars

\* C28. Startup order: a daemon binds and listens before it writes its
\* registry entry and before it broadcasts join, so the registry entry of a
\* running daemon always names an endpoint that accepts connections.
C28_BoundBeforeRegistered ==
    \A n \in Names :
        (n \in SeqSet(registry) /\ main[n].pc \in {"binding", "serving"})
        => Listening(n)

\* C29. Join broadcast: a daemon that registers sends one join, with its
\* presentation as content, to every agent in the registry but itself; a
\* failure at one peer neither keeps the remaining peers from being
\* notified nor fails the startup; and a live peer that receives the join
\* has the joiner in its members cache and the message at the end of its
\* queue.  (ops' - ops - 1 is the number of exchanges that failed at a
\* serving peer.)
C29_JoinBroadcast ==
    [][\A n \in Names :
          ( /\ main[n].pc \in {"off", "exited", "crashed"}
            /\ main'[n].pc \in {"binding", "exiting"} )
          => LET peers == {t \in SeqSet(registry) \ {n} :
                              main[t].pc = "serving" /\ Listening(t)}
                 join == Note("join", n, Presentation(n))
                 got(t) == /\ Len(traffic'[t]) = Len(traffic[t]) + 1
                           /\ traffic'[t][Len(traffic'[t])] = join
                 missed == {t \in peers : ~got(t)}
             IN  /\ main'[n].pc = "binding"
                 /\ Cardinality(missed) <= ops' - ops - 1
                 /\ \A t \in Names \ {n} :
                       Len(traffic'[t]) <= Len(traffic[t]) + 1
                 /\ \A t \in peers :
                       got(t)
                       => /\ n \in SeqSet(members'[t])
                          /\ queue'[t] # <<>>
                          /\ queue'[t][Len(queue'[t])]
                                = Msg("join", n, Presentation(n))]_vars

\* C32. Full drain: a receive that finds the queue non-empty replies with
\* the whole queue in arrival order and leaves the queue empty; and a send
\* that follows such a receive with no envelope dispatched in between is not
\* refused by the unread gate.
C32_FullDrain ==
    [][/\ \A d \in Names, t \in Timeouts :
            (CmdReceive(d, t) /\ queue[d] # <<>>)
            => /\ reply'.to = d
               /\ reply'.cmd = "receive"
               /\ reply'.status = "ok"
               /\ reply'.messages = queue[d]
               /\ queue'[d] = <<>>
       /\ \A d \in Names, c \in Contents :
            ( /\ CmdSend(d, c)
              /\ reply.to = d
              /\ reply.cmd = "receive"
              /\ reply.messages # <<>>
              /\ traffic[d] = <<>> )
            => /\ ~SendRefused(queue[d])
               /\ reply' # Reply(d, UnreadError(queue[d]))]_vars

\* a receive returned two different messages at once, oldest first, and
\* emptied the queue
C32_Witness ==
    /\ reply.cmd = "receive"
    /\ Len(reply.messages) = 2
    /\ reply.messages[1].type = "join"
    /\ reply.messages[2].type = "message"
    /\ queue[reply.to] = <<>>

\* C36. A message leaves the queue only through a successful receive: when
\* a receive handler empties a non-empty queue, the reply the client gets
\* from that daemon is a receive reply that carries the messages removed.
C36_RemovedMeansReplied ==
    [][\A d \in Names :
          ( /\ RecvWake(d) \/ \E t \in Timeouts : CmdReceive(d, t)
            /\ queue[d] # <<>>
            /\ queue'[d] = <<>> )
          => /\ reply'.to = d
             /\ reply'.cmd = "receive"
             /\ reply'.status = "ok"
             /\ reply'.messages = queue[d]]_vars

\* C37. A peer is listed in delivered_to only if its daemon processed the
\* envelope: after an accepted send that replied, every peer in delivered_to
\* has dispatched that send's message, and a peer that closed the
\* connection without a reply is not in delivered_to.
C37_DeliveredMeansProcessed ==
    [][\A d \in Names, c \in Contents :
          ( /\ CmdSend(d, c)
            /\ ~SendRefused(queue[d])
            /\ reply'.status = "ok" )
          => \A t \in SeqSet(reply'.delivered) :
                /\ traffic'[t] = Append(traffic[t], Note("send", d, c))
                /\ queue'[t] # <<>>
                /\ queue'[t][Len(queue'[t])] = BuildMessage(d, c)]_vars

RemoteTypes == {"join", "leave", "message", "self_message", "unknown"}

\* handle_remote_message appends the message for these types
Enqueued(type) == type \in {"join", "leave", "message"}

\* threads are started in order
NextFree(i) == u_thr[i].kind = "free" /\ \A j \in 1..(i - 1) : u_thr[j].kind # "free"

\* run_local_server / _handle_connection: a remote_message envelope arrives
U_AcceptRemote(i, type) ==
    /\ NextFree(i)
    /\ u_thr' = [u_thr EXCEPT ![i] =
          [FreeThread EXCEPT !.kind = "remote", !.pc = "dispatch", !.msg = type]]
    /\ UNCHANGED <<u_queue, u_event, u_file>>

\* handle_remote_message, lines 239-255: the branch on the message type
U_Dispatch(i) ==
    /\ u_thr[i].pc = "dispatch"
    /\ u_queue' = IF Enqueued(u_thr[i].msg) THEN DequeAppend(u_queue, i)
                  ELSE u_queue
    /\ u_thr' = [u_thr EXCEPT ![i].pc = "count"]
    /\ UNCHANGED <<u_event, u_file>>

\* update_unread_file: count = len(self.message_queue)
U_Count(i) ==
    /\ u_thr[i].pc = "count"
    /\ u_thr' = [u_thr EXCEPT ![i].count = Len(u_queue),
                              ![i].pc = IF Len(u_queue) > 0 THEN "write" ELSE "set"]
    /\ UNCHANGED <<u_queue, u_event, u_file>>

\* update_unread_file: self.unread_file_path.write_text(str(count))
U_Write(i) ==
    /\ u_thr[i].pc = "write"
    /\ u_file' = <<u_thr[i].count>>
    /\ u_thr' = [u_thr EXCEPT ![i].pc = "set"]
    /\ UNCHANGED <<u_queue, u_event>>

\* handle_remote_message: self.message_event.set()
U_Set(i) ==
    /\ u_thr[i].pc = "set"
    /\ u_event' = TRUE
    /\ u_thr' = [u_thr EXCEPT ![i].pc = "remote_reply"]
    /\ UNCHANGED <<u_queue, u_file>>

\* handle_remote_message returns {'status': 'ok'}; the reply is written
U_RemoteReply(i) ==
    /\ u_thr[i].pc = "remote_reply"
    /\ u_thr' = [u_thr EXCEPT ![i].pc = "done"]
    /\ UNCHANGED <<u_queue, u_event, u_file>>

\* run_local_server / _handle_connection: a receive command arrives
U_AcceptReceive(i) ==
    /\ NextFree(i)
    /\ u_thr' = [u_thr EXCEPT ![i] =
          [FreeThread EXCEPT !.kind = "receive", !.pc = "clear"]]
    /\ UNCHANGED <<u_queue, u_event, u_file>>

\* handle_command 'receive': self.message_event.clear()
U_Clear(i) ==
    /\ u_thr[i].pc = "clear"
    /\ u_event' = FALSE
    /\ u_thr' = [u_thr EXCEPT ![i].pc = "drain_test"]
    /\ UNCHANGED <<u_queue, u_file>>

\* "while self.message_queue:" of the first drain, then "if not messages:"
U_DrainTest(i) ==
    /\ u_thr[i].pc = "drain_test"
    /\ u_thr' = [u_thr EXCEPT ![i].pc =
          IF u_queue # <<>> THEN "drain_pop"
          ELSE IF u_thr[i].got = <<>> THEN "wait" ELSE "exists"]
    /\ UNCHANGED <<u_queue, u_event, u_file>>

\* messages.append(self.message_queue.popleft()); popleft on an empty deque
\* raises IndexError, which ends the handler without a reply
U_DrainPop(i) ==
    /\ u_thr[i].pc = "drain_pop"
    /\ IF u_queue = <<>>
       THEN /\ u_thr' = [u_thr EXCEPT ![i].pc = "failed"]
            /\ UNCHANGED u_queue
       ELSE /\ u_thr' = [u_thr EXCEPT ![i].got = Append(@, Head(u_queue)),
                                      ![i].pc = "drain_test"]
            /\ u_queue' = Tail(u_queue)
    /\ UNCHANGED <<u_event, u_file>>

\* self.message_event.wait(timeout) returns True: the event is set
U_WaitSet(i) ==
    /\ u_thr[i].pc = "wait"
    /\ u_event
    /\ u_thr' = [u_thr EXCEPT ![i].pc = "drain2_test"]
    /\ UNCHANGED <<u_queue, u_event, u_file>>

\* self.message_event.wait(timeout) returns False: the timeout ran out
U_WaitTimeout(i) ==
    /\ u_thr[i].pc = "wait"
    /\ ~u_event
    /\ u_thr' = [u_thr EXCEPT ![i].pc = "exists"]
    /\ UNCHANGED <<u_queue, u_event, u_file>>

\* "while self.message_queue:" of the drain after the wait
U_Drain2Test(i) ==
    /\ u_thr[i].pc = "drain2_test"
    /\ u_thr' = [u_thr EXCEPT ![i].pc =
          IF u_queue # <<>> THEN "drain2_pop" ELSE "exists"]
    /\ UNCHANGED <<u_queue, u_event, u_file>>

\* popleft of the drain after the wait
U_Drain2Pop(i) ==
    /\ u_thr[i].pc = "drain2_pop"
    /\ IF u_queue = <<>>
       THEN /\ u_thr' = [u_thr EXCEPT ![i].pc = "failed"]
            /\ UNCHANGED u_queue
       ELSE /\ u_thr' = [u_thr EXCEPT ![i].got = Append(@, Head(u_queue)),
                                      ![i].pc = "drain2_test"]
            /\ u_queue' = Tail(u_queue)
    /\ UNCHANGED <<u_event, u_file>>

\* clear_unread_file: if self.unread_file_path.exists()
U_Exists(i) ==
    /\ u_thr[i].pc = "exists"
    /\ u_thr' = [u_thr EXCEPT ![i].pc = IF u_file # <<>> THEN "unlink"
                                        ELSE "receive_reply"]
    /\ UNCHANGED <<u_queue, u_event, u_file>>

\* clear_unread_file: self.unread_file_path.unlink() (an error is printed)
U_Unlink(i) ==
    /\ u_thr[i].pc = "unlink"
    /\ u_file' = <<>>
    /\ u_thr' = [u_thr EXCEPT ![i].pc = "receive_reply"]
    /\ UNCHANGED <<u_queue, u_event>>

\* handle_command returns {'status': 'ok', 'data': {'messages': messages}};
\* the reply is written
U_ReceiveReply(i) ==
    /\ u_thr[i].pc = "receive_reply"
    /\ u_thr' = [u_thr EXCEPT ![i].pc = "done"]
    /\ UNCHANGED <<u_queue, u_event, u_file>>

UnreadNext ==
    \/ \E i \in Threads, t \in RemoteTypes : U_AcceptRemote(i, t) /\ UNCHANGED exceptUnread
    \/ \E i \in Threads : U_Dispatch(i) /\ UNCHANGED exceptUnread
    \/ \E i \in Threads : U_Count(i) /\ UNCHANGED exceptUnread
    \/ \E i \in Threads : U_Write(i) /\ UNCHANGED exceptUnread
    \/ \E i \in Threads : U_Set(i) /\ UNCHANGED exceptUnread
    \/ \E i \in Threads : U_RemoteReply(i) /\ UNCHANGED exceptUnread
    \/ \E i \in Threads : U_AcceptReceive(i) /\ UNCHANGED exceptUnread
    \/ \E i \in Threads : U_Clear(i) /\ UNCHANGED exceptUnread
    \/ \E i \in Threads : U_DrainTest(i) /\ UNCHANGED exceptUnread
    \/ \E i \in Threads : U_DrainPop(i) /\ UNCHANGED exceptUnread
    \/ \E i \in Threads : U_WaitSet(i) /\ UNCHANGED exceptUnread
    \/ \E i \in Threads : U_WaitTimeout(i) /\ UNCHANGED exceptUnread
    \/ \E i \in Threads : U_Drain2Test(i) /\ UNCHANGED exceptUnread
    \/ \E i \in Threads : U_Drain2Pop(i) /\ UNCHANGED exceptUnread
    \/ \E i \in Threads : U_Exists(i) /\ UNCHANGED exceptUnread
    \/ \E i \in Threads : U_Unlink(i) /\ UNCHANGED exceptUnread
    \/ \E i \in Threads : U_ReceiveReply(i) /\ UNCHANGED exceptUnread

SpecUnread == Init /\ [][UnreadNext]_vars

\* --------------------------------------------------- claims (SpecUnread)
\* no handler thread is between its first and its last statement
U_Quiet == \A i \in Threads : u_thr[i].pc \in {"free", "done", "failed"}

\* C5. After a receive has returned status ok the .unread-messages file
\* does not exist, whatever the interleaving with remote_message handlers:
\* stated for the states where every handler has finished and the queue is
\* empty, so that no later arrival accounts for a file.
C5_NoFileAfterReceive ==
    ( /\ U_Quiet
      /\ \E i \in Threads : u_thr[i].kind = "receive" /\ u_thr[i].pc = "done"
      /\ u_queue = <<>> )
    => u_file = <<>>

\* C6. After a remote_message handler has finished, the file, when present,
\* holds the current queue depth, and is never present while the queue is
\* empty: stated for the states where every handler has finished.
C6_FileIsDepth ==
    ( /\ U_Quiet
      /\ \E i \in Threads : u_thr[i].kind = "remote" /\ u_thr[i].pc = "done" )
    => /\ u_file # <<>> => u_file = <<Len(u_queue)>>
       /\ u_queue = <<>> => u_file = <<>>

\* C31. No missed wakeup: with a single receive in the daemon, the receive
\* never ends its wait by timeout while a message enqueued during the call
\* sits in the queue.
C31_NoMissedWakeup ==
    [][\A i \in Threads :
          ( /\ u_thr[i].pc = "wait"
            /\ u_thr'[i].pc = "exists"
            /\ \A j \in Threads \ {i} : u_thr[j].kind # "receive" )
          => u_queue = <<>>]_vars

\* the messages appended to the queue so far, named by their handler thread
U_Appended ==
    {j \in Threads : /\ u_thr[j].kind = "remote"
                     /\ Enqueued(u_thr[j].msg)
                     /\ u_thr[j].pc # "dispatch"}

\* the receive replies written that carry message j
U_RepliesWith(j) ==
    {i \in Threads : /\ u_thr[i].kind = "receive"
                     /\ u_thr[i].pc = "done"
                     /\ j \in SeqSet(u_thr[i].got)}

\* C35. Concurrent receives lose nothing: no receive handler fails while
\* draining, no message is in two receive replies, and once every handler
\* has finished each message appended is either still queued or in exactly
\* one receive reply.
C35_ConcurrentReceives ==
    /\ \A i \in Threads : u_thr[i].kind = "receive" => u_thr[i].pc # "failed"
    /\ \A j \in U_Appended : Cardinality(U_RepliesWith(j)) <= 1
    /\ U_Quiet
       => \A j \in U_Appended :
             \/ j \in SeqSet(u_queue)
             \/ Cardinality(U_RepliesWith(j)) = 1

\* C40. An empty receive batch means a timeout: a receive whose wait was
\* ended by the event (and not by the timeout running out) does not reply
\* with an empty batch.
C40_EmptyMeansTimeout ==
    [][\A i \in Threads :
          (u_thr[i].pc = "drain2_test" /\ u_thr'[i].pc = "exists")
          => u_thr[i].got # <<>>]_vars

\* ------------------------------------------------------------- SpecReg
\* Daemon processes step through main, register, read_registry,
\* write_registry, start_local_server and cleanup against one registry
\* file.  A serialised registry fits the writer's buffer, so json.dump
\* puts nothing on disk before the file is closed; entries are taken to
\* serialise to the same length, so len counts entries.

\* sys.exit(code): the interpreter runs the atexit hook, Agent.cleanup
Exit(pr, code, why, runs) ==
    [pr EXCEPT !.pc = "rd_open", !.phase = "cleanup", !.code = code,
               !.why = why, !.left = runs, !.reg = {}, !.raised = FALSE,
               !.saw = "none"]

\* what follows read_registry() in register (lines 267-288) and in
\* cleanup (lines 117-122)
AfterRead(p, pr, res, raised) ==
    IF pr.phase = "register"
    THEN IF raised THEN Exit(pr, 1, "fatal", 1)
         ELSE IF ProcName(p) \in res
              THEN [pr EXCEPT !.pc = "probe", !.reg = res]
              ELSE [pr EXCEPT !.pc = "wr_open", !.reg = res \cup {ProcName(p)}]
    ELSE IF ~raised /\ ProcName(p) \in res
         THEN [pr EXCEPT !.pc = "wr_open", !.reg = res \ {ProcName(p)}]
         ELSE [pr EXCEPT !.pc = "cln_sock", !.reg = {}]

\* main: Agent(...), atexit.register(agent.cleanup), agent.run().
\* Processes are launched in order and the first under the name "A": the
\* names and the process numbers are interchangeable.
R_Launch(p, n) ==
    /\ r_proc[p].pc = "idle"
    /\ \A q \in Procs : q < p => r_proc[q].pc # "idle"
    /\ p = 1 => n = "A"
    /\ r_proc' = [r_proc EXCEPT ![p] =
          [IdleProc EXCEPT !.pc = "rd_open", !.phase = "register",
                           !.name = n]]
    /\ UNCHANGED <<r_disk, r_lock, r_sock>>

\* read_registry: "if not registry_path.exists(): return {}", else open
R_ReadOpen(p) ==
    /\ r_proc[p].pc = "rd_open"
    /\ r_proc' = [r_proc EXCEPT ![p] =
          IF r_disk.kind = "absent" THEN AfterRead(p, @, {}, FALSE)
          ELSE [@ EXCEPT !.pc = "rd_lock"]]
    /\ UNCHANGED <<r_disk, r_lock, r_sock>>

\* read_registry: fcntl.flock(f.fileno(), fcntl.LOCK_SH) blocks while
\* another process holds the exclusive lock
R_ReadLock(p) ==
    /\ r_proc[p].pc = "rd_lock"
    /\ \A q \in Procs \ {p} : r_lock[q] # "ex"
    /\ r_lock' = [r_lock EXCEPT ![p] = "sh"]
    /\ r_proc' = [r_proc EXCEPT ![p].pc = "rd_read"]
    /\ UNCHANGED <<r_disk, r_sock>>

\* read_registry: data = f.read(); json.loads(data) if data else {}
R_Read(p) ==
    /\ r_proc[p].pc = "rd_read"
    /\ r_proc' = [r_proc EXCEPT ![p].pc = "rd_unlock",
                                ![p].saw = r_disk.kind,
                                ![p].raised = (r_disk.kind = "garbled"),
                                ![p].reg = IF r_disk.kind = "whole"
                                           THEN r_disk.names ELSE {}]
    /\ UNCHANGED <<r_disk, r_lock, r_sock>>

\* read_registry: finally flock(LOCK_UN); the value or the exception
\* reaches the caller
R_ReadUnlock(p) ==
    /\ r_proc[p].pc = "rd_unlock"
    /\ r_lock' = [r_lock EXCEPT ![p] = "none"]
    /\ r_proc' = [r_proc EXCEPT ![p] =
          AfterRead(p, [@ EXCEPT !.saw = "none", !.raised = FALSE],
                    @.reg, @.raised)]
    /\ UNCHANGED <<r_disk, r_sock>>

\* check_agent_alive: the socket file exists and a connect to it succeeds
check_alive(n) == r_sock[n] # 0 /\ r_proc[r_sock[n]].listening

\* register: the name is in the registry; sys.exit(1) when the probe
\* connects, else the stale entry is replaced
R_Probe(p) ==
    /\ r_proc[p].pc = "probe"
    /\ r_proc' = [r_proc EXCEPT ![p] =
          IF check_alive(ProcName(p)) THEN Exit(@, 1, "collision", 1)
          ELSE [@ EXCEPT !.pc = "wr_open",
                         !.reg = (@ \ {ProcName(p)}) \cup {ProcName(p)}]]
    /\ UNCHANGED <<r_disk, r_lock, r_sock>>

\* write_registry: open(registry_path, 'w') creates or truncates the file
R_WriteOpen(p) ==
    /\ r_proc[p].pc = "wr_open"
    /\ r_disk' = [kind |-> "empty", names |-> {}, len |-> 0]
    /\ r_proc' = [r_proc EXCEPT ![p].pc = "wr_lock"]
    /\ UNCHANGED <<r_lock, r_sock>>

\* write_registry: fcntl.flock(f.fileno(), fcntl.LOCK_EX) blocks while
\* another process holds any lock
R_WriteLock(p) ==
    /\ r_proc[p].pc = "wr_lock"
    /\ \A q \in Procs \ {p} : r_lock[q] = "none"
    /\ r_lock' = [r_lock EXCEPT ![p] = "ex"]
    /\ r_proc' = [r_proc EXCEPT ![p].pc = "wr_unlock"]
    /\ UNCHANGED <<r_disk, r_sock>>

\* write_registry: json.dump into the file object's buffer, then
\* finally flock(LOCK_UN)
R_WriteUnlock(p) ==
    /\ r_proc[p].pc = "wr_unlock"
    /\ r_lock' = [r_lock EXCEPT ![p] = "none"]
    /\ r_proc' = [r_proc EXCEPT ![p].pc = "wr_close"]
    /\ UNCHANGED <<r_disk, r_sock>>

\* the buffer written at offset 0 over what the file holds by then
Flush(disk, names) ==
    IF Cardinality(names) >= disk.len
    THEN [kind |-> "whole", names |-> names, len |-> Cardinality(names)]
    ELSE [kind |-> "garbled", names |-> {}, len |-> disk.len]

\* write_registry: leaving the "with" block closes the file, which
\* flushes the buffer to disk
R_WriteClose(p) ==
    /\ r_proc[p].pc = "wr_close"
    /\ r_disk' = Flush(r_disk, r_proc[p].reg)
    /\ r_proc' = [r_proc EXCEPT ![p].reg = {},
                                ![p].pc = IF r_proc[p].phase = "register"
                                          THEN "srv_unlink" ELSE "cln_sock"]
    /\ UNCHANGED <<r_lock, r_sock>>

\* start_local_server: "if os.path.exists(path): os.unlink(path)"
R_SrvUnlink(p) ==
    /\ r_proc[p].pc = "srv_unlink"
    /\ r_sock' = [r_sock EXCEPT ![ProcName(p)] = 0]
    /\ r_proc' = [r_proc EXCEPT ![p].pc = "srv_bind"]
    /\ UNCHANGED <<r_disk, r_lock>>

\* start_local_server: bind and listen; bind on an existing path raises
\* OSError, which main reports as fatal and exits 1
R_SrvBind(p) ==
    /\ r_proc[p].pc = "srv_bind"
    /\ IF r_sock[ProcName(p)] # 0
       THEN /\ r_proc' = [r_proc EXCEPT ![p] = Exit(@, 1, "fatal", 1)]
            /\ UNCHANGED r_sock
       ELSE /\ r_proc' = [r_proc EXCEPT ![p].pc = "serving",
                                        ![p].phase = "serve",
                                        ![p].listening = TRUE]
            /\ r_sock' = [r_sock EXCEPT ![ProcName(p)] = p]
    /\ UNCHANGED <<r_disk, r_lock>>

\* signal_handler on SIGINT/SIGTERM: agent.cleanup(), then sys.exit(0)
\* runs cleanup once more from atexit
R_Signal(p) ==
    /\ r_proc[p].pc = "serving"
    /\ r_proc' = [r_proc EXCEPT ![p] = Exit(@, 0, "signal", 2)]
    /\ UNCHANGED <<r_disk, r_lock, r_sock>>

\* SIGKILL: the process is gone, its socket file stays
R_Crash(p) ==
    /\ r_proc[p].pc = "serving"
    /\ r_proc' = [r_proc EXCEPT ![p].pc = "crashed", ![p].phase = "none",
                                ![p].listening = FALSE, ![p].code = 137,
                                ![p].why = "killed"]
    /\ UNCHANGED <<r_disk, r_lock, r_sock>>

\* cleanup: local_sock.close() when there is one, then
\* "if os.path.exists(self.local_socket_path): os.unlink(...)"
R_CleanSock(p) ==
    /\ r_proc[p].pc = "cln_sock"
    /\ r_sock' = [r_sock EXCEPT ![ProcName(p)] = 0]
    /\ r_proc' = [r_proc EXCEPT ![p].listening = FALSE,
                                ![p].left = @ - 1,
                                ![p].pc = IF r_proc[p].left > 1 THEN "rd_open"
                                          ELSE "exited",
                                ![p].phase = IF r_proc[p].left > 1 THEN "cleanup"
                                             ELSE "none"]
    /\ UNCHANGED <<r_disk, r_lock>>

RegNext ==
    \/ \E p \in Procs, n \in RegNames : R_Launch(p, n) /\ UNCHANGED exceptReg
    \/ \E p \in Procs : R_ReadOpen(p) /\ UNCHANGED exceptReg
    \/ \E p \in Procs : R_ReadLock(p) /\ UNCHANGED exceptReg
    \/ \E p \in Procs : R_Read(p) /\ UNCHANGED exceptReg
    \/ \E p \in Procs : R_ReadUnlock(p) /\ UNCHANGED exceptReg
    \/ \E p \in Procs : R_Probe(p) /\ UNCHANGED exceptReg
    \/ \E p \in Procs : R_WriteOpen(p) /\ UNCHANGED exceptReg
    \/ \E p \in Procs : R_WriteLock(p) /\ UNCHANGED exceptReg
    \/ \E p \in Procs : R_WriteUnlock(p) /\ UNCHANGED exceptReg
    \/ \E p \in Procs : R_WriteClose(p) /\ UNCHANGED exceptReg
    \/ \E p \in Procs : R_SrvUnlink(p) /\ UNCHANGED exceptReg
    \/ \E p \in Procs : R_SrvBind(p) /\ UNCHANGED exceptReg
    \/ \E p \in Procs : R_Signal(p) /\ UNCHANGED exceptReg
    \/ \E p \in Procs : R_Crash(p) /\ UNCHANGED exceptReg
    \/ \E p \in Procs : R_CleanSock(p) /\ UNCHANGED exceptReg

SpecReg == Init /\ [][RegNext]_vars

\* ------------------------------------------------------ claims (SpecReg)
\* the names registry.json lists, as a reader would parse it
Listed == IF r_disk.kind = "whole" THEN r_disk.names ELSE {}

\* process p is at rest: not launched, serving, or gone
AtRest(p) == r_proc[p].pc \in {"idle", "serving", "exited", "crashed"}

\* C3. While daemon p runs under a name, a second daemon q launched under
\* the same name exits non-zero on the name collision, and once q has
\* fully exited p's registry entry and p's socket file are still there
\* (no other process has been launched).
C3_CollisionLeavesOriginal ==
    \A p, q \in Procs :
        ( /\ p # q
          /\ ProcName(p) = ProcName(q)
          /\ r_proc[p].pc = "serving"
          /\ r_proc[q].pc = "exited"
          /\ r_proc[q].why = "collision"
          /\ \A o \in Procs \ {p, q} : r_proc[o].pc = "idle" )
        => /\ r_proc[q].code # 0
           /\ ProcName(p) \in Listed
           /\ r_sock[ProcName(p)] = p

\* C4. For every name at most one live daemon process holds it, that is,
\* has registered under it, bound its endpoint and is serving.
C4_NameUnique ==
    \A p, q \in Procs :
        ( /\ ProcName(p) = ProcName(q)
          /\ r_proc[p].pc = "serving"
          /\ r_proc[q].pc = "serving" )
        => p = q

\* process q has truncated the registry for a write of entries and has not
\* flushed them yet
MidWrite(q) ==
    /\ r_proc[q].pc \in {"wr_lock", "wr_unlock", "wr_close"}
    /\ r_proc[q].reg # {}

\* C7. A reader holding the shared lock never reads an empty registry file
\* that a writer has truncated and not yet filled with its entries.
C7_ReaderNeverSeesTorn ==
    \A p, q \in Procs :
        ~ ( /\ r_lock[p] = "sh"
            /\ r_proc[p].pc = "rd_unlock"
            /\ r_proc[p].saw = "empty"
            /\ MidWrite(q) )

\* C8. With at most one process per name, none killed, once every process
\* is at rest the registry lists exactly the names of the daemons that
\* completed startup and have not shut down.
C8_NoLostUpdate ==
    ( /\ \A p \in Procs : AtRest(p) /\ r_proc[p].pc # "crashed"
      /\ \A p, q \in Procs :
            (p # q /\ r_proc[p].pc # "idle" /\ r_proc[q].pc # "idle")
            => ProcName(p) # ProcName(q) )
    => /\ r_disk.kind \in {"absent", "whole"}
       /\ Listed = {ProcName(p) : p \in {q \in Procs : r_proc[q].pc = "serving"}}

\* C22. Graceful shutdown: a daemon that exits after SIGINT/SIGTERM exits
\* with status 0, and at that moment its registry entry is absent and its
\* endpoint file is unlinked (no other process was launched under its name).
C22_GracefulExitClean ==
    [][\A p \in Procs :
          ( /\ r_proc[p].pc # "exited"
            /\ r_proc'[p].pc = "exited"
            /\ r_proc'[p].why = "signal"
            /\ \A q \in Procs \ {p} :
                  r_proc[q].pc # "idle" => ProcName(q) # ProcName(p) )
          => /\ r_proc'[p].code = 0
             /\ ProcName(p) \notin Listed'
             /\ r_sock'[ProcName(p)] = 0]_vars

\* C39. Registry read failure returns the empty map: read_registry never
\* raises, and when the file is empty or does not decode as JSON the map it
\* returns is empty.
C39_ReadFailureIsEmpty ==
    [][\A p \in Procs :
          R_Read(p)
          => /\ ~r_proc'[p].raised
             /\ r_disk.kind # "whole" => r_proc'[p].reg = {}]_vars

\* ------------------------------------------------------------ SpecQueue
\* One daemon's message_queue under a stream of queued remote messages
\* (join, leave, or message from another agent) and receive commands.

\* handle_remote_message for a queued type: append, then return status ok
Q_Enqueue ==
    /\ q_count < MaxArrivals
    /\ q_queue' = DequeAppend(q_queue, q_count + 1)
    /\ q_count' = q_count + 1
    /\ q_resp' = "ok"
    /\ UNCHANGED q_mark

\* handle_command 'receive' with messages queued: popleft until empty
Q_Receive ==
    /\ q_queue # <<>>
    /\ q_queue' = <<>>
    /\ q_mark' = q_count
    /\ UNCHANGED <<q_count, q_resp>>

QueueNext ==
    \/ Q_Enqueue /\ UNCHANGED exceptQueue
    \/ Q_Receive /\ UNCHANGED exceptQueue

SpecQueue == Init /\ [][QueueNext]_vars

\* C15. Queue bound: the queue never holds more than 100 messages; it holds
\* the most recent (up to 100) of the messages enqueued since the last
\* drain, in arrival order, so a message enqueued onto a full queue evicts
\* the oldest; and every enqueue is answered status ok.
C15_QueueBound ==
    LET n == q_count - q_mark
        k == IF n > MAXLEN THEN MAXLEN ELSE n
    IN  /\ Len(q_queue) <= MAXLEN
        /\ q_queue = [i \in 1..k |-> q_count - k + i]
        /\ q_count > 0 => q_resp = "ok"

\* 102 messages arrived without a drain: the two oldest are gone
C15_Witness ==
    /\ q_mark = 0
    /\ q_count = MAXLEN + 2
    /\ Len(q_queue) = MAXLEN
    /\ Head(q_queue) = 3

\* ------------------------------------------------------------ SpecOrder
\* Sender S's accept loop starts one handler thread per connection, so
\* several send commands are in progress at once; each delivers to the one
\* peer R, whose accept loop starts a handler thread per connection too.
\* S's own queue stays empty, so every send passes the unread gate.

\* run_local_server of S: the i-th send command is accepted, a thread starts
O_Accept(i) ==
    /\ o_thr[i] = "free"
    /\ \A j \in Sends : j < i => o_thr[j] # "free"
    /\ o_thr' = [o_thr EXCEPT ![i] = "gate"]
    /\ UNCHANGED <<o_queue, o_batch>>

\* handle_command 'send' in thread i: the gate passes, the registry is read
\* and the message is built
O_Gate(i) ==
    /\ o_thr[i] = "gate"
    /\ o_thr' = [o_thr EXCEPT ![i] = "connect"]
    /\ UNCHANGED <<o_queue, o_batch>>

\* send_to_agent in thread i: connect to R and send the framed envelope;
\* R's accept loop hands the connection to a handler thread of its own
O_Connect(i) ==
    /\ o_thr[i] = "connect"
    /\ o_thr' = [o_thr EXCEPT ![i] = "r_handling"]
    /\ UNCHANGED <<o_queue, o_batch>>

\* R's handler thread for that connection: handle_remote_message appends
\* the message and the reply {'status': 'ok'} is sent
O_RemoteAppend(i) ==
    /\ o_thr[i] = "r_handling"
    /\ o_queue' = DequeAppend(o_queue, i)
    /\ o_thr' = [o_thr EXCEPT ![i] = "sent"]
    /\ UNCHANGED o_batch

\* send_to_agent returns (True, None); thread i replies to its client
O_Reply(i) ==
    /\ o_thr[i] = "sent"
    /\ o_thr' = [o_thr EXCEPT ![i] = "done"]
    /\ UNCHANGED <<o_queue, o_batch>>

\* a receive command on R drains its queue into a batch
O_Receive ==
    /\ o_queue # <<>>
    /\ o_batch' = o_batch \o o_queue
    /\ o_queue' = <<>>
    /\ UNCHANGED o_thr

OrderNext ==
    \/ \E i \in Sends : O_Accept(i) /\ UNCHANGED exceptOrder
    \/ \E i \in Sends : O_Gate(i) /\ UNCHANGED exceptOrder
    \/ \E i \in Sends : O_Connect(i) /\ UNCHANGED exceptOrder
    \/ \E i \in Sends : O_RemoteAppend(i) /\ UNCHANGED exceptOrder
    \/ \E i \in Sends : O_Reply(i) /\ UNCHANGED exceptOrder
    \/ O_Receive /\ UNCHANGED exceptOrder

SpecOrder == Init /\ [][OrderNext]_vars

\* C20. Per-sender ordering: S's messages reach R's batches and R's queue
\* in the order in which S's daemon accepted the send commands.
C20_SendOrder ==
    LET got == o_batch \o o_queue
    IN  \A a, b \in 1..Len(got) : a < b => got[a] < got[b]

\* ------------------------------------------------------------- SpecSend
\* Daemon A serves send, status and receive commands one at a time while
\* its peers B and C, separate processes, shut down or are killed at any
\* point.  A's own registry entry and endpoint stay as they are.
\* main.signal_handler of peer t: running = False and the leave broadcast.
\* reaches: A is in t's members cache and A's handler thread dispatches the
\* leave (handle_remote_message: del members[t], append, event)
P_Signal(t, reaches) ==
    /\ s_peer[t] = "serving"
    /\ s_peer' = [s_peer EXCEPT ![t] = "leaving"]
    /\ s_members' = IF reaches THEN s_members \ {t} ELSE s_members
    /\ s_queue' = IF reaches THEN s_queue + 1 ELSE s_queue
    /\ UNCHANGED <<s_reg, s_pc, s_todo, s_acc, s_failed, s_reply>>

\* Agent.cleanup of peer t: read_registry / del / write_registry
P_Unregister(t) ==
    /\ s_peer[t] = "leaving"
    /\ s_peer' = [s_peer EXCEPT ![t] = "unlisted"]
    /\ s_reg' = s_reg \ {t}
    /\ UNCHANGED <<s_pc, s_todo, s_members, s_queue, s_acc, s_failed, s_reply>>

\* Agent.cleanup of peer t: local_sock.close, the socket file unlinked;
\* sys.exit(0)
P_Unlink(t) ==
    /\ s_peer[t] = "unlisted"
    /\ s_peer' = [s_peer EXCEPT ![t] = "exited"]
    /\ UNCHANGED <<s_reg, s_pc, s_todo, s_members, s_queue, s_acc, s_failed,
                   s_reply>>

\* SIGKILL of peer t: registry entry and socket file stay behind
P_Kill(t) ==
    /\ s_peer[t] = "serving"
    /\ s_peer' = [s_peer EXCEPT ![t] = "killed"]
    /\ UNCHANGED <<s_reg, s_pc, s_todo, s_members, s_queue, s_acc, s_failed,
                   s_reply>>

\* handle_command 'send': the unread gate
S_Gate ==
    /\ s_pc = "idle"
    /\ IF s_queue > 0
       THEN /\ s_reply' = [S_NoReply EXCEPT !.cmd = "send", !.status = "error"]
            /\ UNCHANGED s_pc
       ELSE /\ s_pc' = "refresh"
            /\ UNCHANGED s_reply
    /\ UNCHANGED <<s_reg, s_peer, s_todo, s_members, s_queue, s_acc, s_failed>>

\* send_message_to_agents: read_registry, the members cache replaced by the
\* registry without self, members_to_send
S_Refresh ==
    /\ s_pc = "refresh"
    /\ s_members' = s_reg
    /\ s_todo' = ListOf(s_reg)
    /\ s_acc' = NoAcc
    /\ s_pc' = IF s_reg = {} THEN "reply" ELSE "lookup"
    /\ UNCHANGED <<s_reg, s_peer, s_queue, s_failed, s_reply>>

\* the for loop goes to the next name, or returns
AfterPeer == IF Tail(s_todo) = <<>> THEN "reply" ELSE "lookup"

\* send_to_agent: read_registry and registry.get(target_name); without an
\* entry it returns (False, "Agent ... not in registry")
S_Lookup ==
    /\ s_pc = "lookup"
    /\ LET t == Head(s_todo)
       IN  IF t \notin s_reg
           THEN /\ s_acc' = [s_acc EXCEPT !.failed = @ \cup {t}]
                /\ s_todo' = Tail(s_todo)
                /\ s_pc' = AfterPeer
           ELSE /\ s_pc' = "connect"
                /\ UNCHANGED <<s_todo, s_acc>>
    /\ UNCHANGED <<s_reg, s_peer, s_members, s_queue, s_failed, s_reply>>

\* send_to_agent: connect, send the envelope, read the reply.  Only a
\* serving peer replies: a peer in its signal handler accepts nothing
\* (timeout), a closed or killed one refuses, an unlinked one is not found;
\* the except clause drops the name from the members cache
S_Connect ==
    /\ s_pc = "connect"
    /\ LET t == Head(s_todo)
       IN  IF s_peer[t] = "serving"
           THEN /\ s_acc' = [s_acc EXCEPT !.delivered = @ \cup {t}]
                /\ UNCHANGED s_members
           ELSE /\ s_acc' = [s_acc EXCEPT !.failed = @ \cup {t}]
                /\ s_members' = s_members \ {t}
    /\ s_todo' = Tail(s_todo)
    /\ s_pc' = AfterPeer
    /\ UNCHANGED <<s_reg, s_peer, s_queue, s_failed, s_reply>>

\* handle_command 'send': the reply with delivered_to and failed
S_Reply ==
    /\ s_pc = "reply"
    /\ s_reply' = [S_NoReply EXCEPT !.cmd = "send", !.status = "ok",
                      !.delivered = s_acc.delivered, !.failed = s_acc.failed]
    /\ s_failed' = s_acc.failed
    /\ s_pc' = "idle"
    /\ UNCHANGED <<s_reg, s_peer, s_todo, s_members, s_queue, s_acc>>

\* handle_command 'status'
S_Status ==
    /\ s_pc = "idle"
    /\ s_reply' = [S_NoReply EXCEPT !.cmd = "status", !.status = "ok",
                      !.members = s_members]
    /\ UNCHANGED <<s_reg, s_peer, s_pc, s_todo, s_members, s_queue, s_acc,
                   s_failed>>

\* handle_command 'receive' with messages queued
S_Receive ==
    /\ s_pc = "idle"
    /\ s_queue > 0
    /\ s_queue' = 0
    /\ s_reply' = [S_NoReply EXCEPT !.cmd = "receive", !.status = "ok"]
    /\ UNCHANGED <<s_reg, s_peer, s_pc, s_todo, s_members, s_acc, s_failed>>

SendNext ==
    \/ \E t \in Peers, b \in BOOLEAN : P_Signal(t, b) /\ UNCHANGED exceptSend
    \/ \E t \in Peers : P_Unregister(t) /\ UNCHANGED exceptSend
    \/ \E t \in Peers : P_Unlink(t) /\ UNCHANGED exceptSend
    \/ \E t \in Peers : P_Kill(t) /\ UNCHANGED exceptSend
    \/ S_Gate /\ UNCHANGED exceptSend
    \/ S_Refresh /\ UNCHANGED exceptSend
    \/ S_Lookup /\ UNCHANGED exceptSend
    \/ S_Connect /\ UNCHANGED exceptSend
    \/ S_Reply /\ UNCHANGED exceptSend
    \/ S_Status /\ UNCHANGED exceptSend
    \/ S_Receive /\ UNCHANGED exceptSend

SpecSend == Init /\ [][SendNext]_vars

\* C21. A peer whose delivery failed during a send (connect or write failed,
\* or it had no registry entry) is out of the sender's members cache: the
\* status reply that follows the send reply does not list it.
C21_FailedPeerDropped ==
    s_reply.cmd = "status" => s_reply.members \cap s_failed = {}

\* ------------------------------------------------------------ SpecFrame
\* Connections one after the other.  On a "daemon" connection the daemon's
\* handler thread (_handle_connection) reads a frame with
\* recv_framed_message, dispatches it and replies; on a "client" connection
\* chat.py send_command has sent its command and reads the daemon's reply.
\* The writer of the stream may declare any length, deliver its bytes in
\* pieces, and close at any point.

\* the declared lengths tried
Lens == {0, 5000, MAX_MESSAGE_SIZE, MAX_MESSAGE_SIZE + 1}

\* recv(n) returns between 1 and n bytes: all of them, or half
Splits(n) == {n} \cup (IF n > 1 THEN {n \div 2} ELSE {})

TooLarge_Mutant(len) == len >= MAX_MESSAGE_SIZE

\* recv_framed_message: "if message_length > MAX_MESSAGE_SIZE: raise"
TooLarge(len) == len > MAX_MESSAGE_SIZE

SigpipeIgnored_Mutant == FALSE

\* main: signal.signal(signal.SIGPIPE, signal.SIG_IGN)
SigpipeIgnored == TRUE

\* What a complete payload can be to the daemon.
\*   malformed        not JSON (or not UTF-8): json.loads raises
\*   falsy            JSON null, {}, [], 0, "" or false: "if not envelope"
\*   nondict          any other JSON that is not an object
\*   type_unknown     an object whose type is neither command nor
\*                    remote_message
\*   command_unknown  a command that handle_command has no branch for
\*   command_ok       a command that handle_command answers
\*   command_raises   a command whose args make handle_command raise
\*   remote           a remote_message that handle_remote_message answers
\*   remote_raises    a remote_message whose message is not an object
DaemonKinds(len) ==
    IF len = 0 THEN {"malformed"}
    ELSE {"malformed", "falsy", "nondict", "type_unknown", "command_unknown",
          "command_ok", "command_raises", "remote", "remote_raises"}

\* _handle_connection: handle_command or handle_remote_message is called
Dispatches(kind) ==
    kind \in {"command_unknown", "command_ok", "command_raises", "remote",
              "remote_raises"}

\* _handle_connection: the response handed to send_framed_message
Response(kind) ==
    IF kind \in {"type_unknown", "command_unknown"} THEN "error"
    ELSE IF kind \in {"command_ok", "remote"} THEN "ok"
    ELSE "none"

\* how the handler failed, if it did
Failure(kind, open) ==
    IF kind = "malformed" THEN "malformed"
    ELSE IF kind = "falsy" THEN "falsy"
    ELSE IF kind \in {"nondict", "command_raises", "remote_raises"}
         THEN "exception"
    ELSE IF ~open THEN "broken_pipe"
    ELSE "none"

Out(result) ==
    [NoOut EXCEPT !.reader = f_conn.reader, !.len = f_conn.len,
                  !.consumed = f_got, !.result = result, !.closed = TRUE]

\* the reader is done with the connection: "finally: conn.close()" in the
\* daemon, send_command returns in the client
End(out, failure) ==
    /\ f_out' = out
    /\ f_failed' = IF failure # "none" THEN failure ELSE f_failed
    /\ f_pc' = "accept"
    /\ f_conn' = NoConn
    /\ f_hdr' = 0
    /\ f_got' = 0
    /\ UNCHANGED f_alive

\* run_local_server accepts a connection and starts its handler thread
\* (r = "daemon"); send_command connects and sends its command (r = "client")
F_Open(r) ==
    /\ f_alive
    /\ f_pc = "accept"
    /\ f_conn' = [reader |-> r, len |-> 0]
    /\ f_pc' = "hdr"
    /\ f_out' = NoOut
    /\ UNCHANGED <<f_alive, f_hdr, f_got, f_failed>>

\* the length loop: recv(4 - len(length_data)) returns k bytes; with the
\* fourth byte the length l is unpacked and, in the daemon, checked
F_RecvHeader(k, l) ==
    /\ f_pc = "hdr"
    /\ k \in 1..(4 - f_hdr)
    /\ IF f_hdr + k < 4
       THEN /\ l = 0
            /\ f_hdr' = f_hdr + k
            /\ UNCHANGED <<f_alive, f_pc, f_conn, f_got, f_out, f_failed>>
       ELSE IF f_conn.reader = "daemon" /\ TooLarge(l)
            THEN End([Out("refused") EXCEPT !.len = l], "oversize")
            ELSE /\ f_conn' = [f_conn EXCEPT !.len = l]
                 /\ f_hdr' = 4
                 /\ f_pc' = IF l = 0 THEN "full" ELSE "body"
                 /\ UNCHANGED <<f_alive, f_got, f_out, f_failed>>

\* the length loop: recv returns b''.  recv_framed_message returns None and
\* the handler returns; send_command raises "Connection closed by server"
F_HeaderEof ==
    /\ f_pc = "hdr"
    /\ IF f_conn.reader = "daemon"
       THEN End([Out("eof") EXCEPT !.eof = TRUE], "eof")
       ELSE End([Out("eof") EXCEPT !.eof = TRUE, !.report = "closed"], "none")

\* the body loop: recv(min(4096, length - len(data))) returns k bytes
F_RecvBody(k) ==
    /\ f_pc = "body"
    /\ k \in Splits(IF f_conn.len - f_got < CHUNK THEN f_conn.len - f_got
                    ELSE CHUNK)
    /\ f_got' = f_got + k
    /\ f_pc' = IF f_got + k = f_conn.len THEN "full" ELSE "body"
    /\ UNCHANGED <<f_alive, f_conn, f_hdr, f_out, f_failed>>

\* the body loop: recv returns b''.  recv_framed_message returns None and
\* the handler returns; send_command breaks out of the loop and hands what
\* it has to json.loads, which raises: a proper prefix of the JSON object
\* the daemon wrote is not JSON
F_BodyEof ==
    /\ f_pc = "body"
    /\ IF f_conn.reader = "daemon"
       THEN End([Out("eof") EXCEPT !.eof = TRUE], "eof")
       ELSE End([Out("undecodable") EXCEPT !.eof = TRUE,
                                           !.report = "json_error"], "none")

\* _handle_connection once recv_framed_message has the whole payload:
\* json.loads, the dispatch on type, send_framed_message, conn.close
F_Handle(kind, open) ==
    /\ f_pc = "full"
    /\ f_conn.reader = "daemon"
    /\ kind \in DaemonKinds(f_conn.len)
    /\ LET out == [Out(IF kind = "malformed" THEN "undecodable"
                       ELSE "accepted")
                     EXCEPT !.kind = kind, !.dispatched = Dispatches(kind),
                            !.reply = Response(kind), !.open = open]
       IN  IF Response(kind) # "none" /\ ~open /\ ~SigpipeIgnored
           THEN \* SIGPIPE with its default action ends the process
                /\ f_alive' = FALSE
                /\ f_pc' = "dead"
                /\ f_out' = out
                /\ f_failed' = "broken_pipe"
                /\ UNCHANGED <<f_conn, f_hdr, f_got>>
           ELSE End(out, Failure(kind, open))

\* send_command once the body loop has the whole payload: json.loads, then
\* the response is returned to cmd_*
F_ClientParse(valid) ==
    /\ f_pc = "full"
    /\ f_conn.reader = "client"
    /\ valid => f_conn.len > 0
    /\ IF valid
       THEN End([Out("accepted") EXCEPT !.report = "response"], "none")
       ELSE End([Out("undecodable") EXCEPT !.report = "json_error"], "none")

FrameNext ==
    \/ \E r \in Readers : F_Open(r) /\ UNCHANGED exceptFrame
    \/ \E k \in 1..4, l \in Lens : F_RecvHeader(k, l) /\ UNCHANGED exceptFrame
    \/ F_HeaderEof /\ UNCHANGED exceptFrame
    \/ \E k \in 1..CHUNK : F_RecvBody(k) /\ UNCHANGED exceptFrame
    \/ F_BodyEof /\ UNCHANGED exceptFrame
    \/ \E kind \in DaemonKinds(1), open \in BOOLEAN :
          F_Handle(kind, open) /\ UNCHANGED exceptFrame
    \/ \E valid \in BOOLEAN : F_ClientParse(valid) /\ UNCHANGED exceptFrame

SpecFrame == Init /\ [][FrameNext]_vars

\* C24. Protocol errors get an error reply: a frame whose envelope has an
\* unknown type, whose command is unknown, or whose payload is malformed
\* JSON is answered with a status-error reply, and the daemon keeps running.
C24_ProtocolErrorReply ==
    ( /\ f_out.reader = "daemon"
      /\ f_out.kind \in {"type_unknown", "command_unknown", "malformed"} )
    => /\ f_out.reply = "error"
       /\ f_alive

\* C25. DoS guard: when the length prefix of a frame sent to the daemon
\* declares more than 1 MiB the daemon reads none of the body, dispatches
\* nothing, writes no reply and closes the connection; a frame declaring
\* 1 MiB or less is not refused.
C25_DosGuard ==
    (f_out.reader = "daemon" /\ f_out.result # "none")
    => /\ f_out.len > 1048576
          => /\ f_out.result = "refused"
             /\ f_out.consumed = 0
             /\ ~f_out.dispatched
             /\ f_out.reply = "none"
             /\ f_out.closed
       /\ f_out.len <= 1048576 => f_out.result # "refused"

\* an oversized frame was refused, and then a frame of exactly 1 MiB was
\* read in full and dispatched
C25_Witness ==
    /\ f_failed = "oversize"
    /\ f_out.reader = "daemon"
    /\ f_out.len = 1048576
    /\ f_out.consumed = 1048576
    /\ f_out.dispatched

\* C26. Framing: a reader (the daemon's or the CLI's) that accepts a framed
\* message has consumed exactly the declared number of payload bytes, and
\* that number is at most 1 MiB; when end-of-file comes before the declared
\* length is consumed the message is not accepted and, in the CLI, the
\* connection is reported as closed.
C26_Framing ==
    /\ f_out.result = "accepted"
       => /\ f_out.consumed = f_out.len
          /\ f_out.len <= 1048576
    /\ f_out.eof
       => /\ f_out.result # "accepted"
          /\ f_out.reader = "client" => f_out.report = "closed"

\* C30. A failing connection handler never kills the daemon: whenever a
\* handler ends, also in an error, the process is alive and the accept loop
\* takes the next connection.
C30_HandlerFailureContained ==
    [][(f_pc # "accept" /\ f_out'.reader = "daemon")
       => (f_alive' /\ f_pc' = "accept")]_vars

\* a reply was written to a connection its client had closed, and a later
\* command was served
C30_Witness ==
    /\ f_failed = "broken_pipe"
    /\ f_alive
    /\ f_out.reader = "daemon"
    /\ f_out.kind = "command_ok"
    /\ f_out.reply = "ok"
    /\ f_out.open

\* -------------------------------------------------------------- SpecCli
\* One run of chat.py: main parses the command line, looks for the agent's
\* socket file and runs cmd_send, cmd_receive, cmd_ask, cmd_status or
\* cmd_leave, each of which maps the response of send_command to an exit
\* code.  (Command lines with -h are left out.)

\* the subcommand given: one of the five, none, or a word that is none of them
CliCommands == {"send", "receive", "ask", "status", "leave", "none", "bogus"}

\* agent: --agent NAME is given; message: a positional argument follows the
\* subcommand; timeout: --timeout is absent, an integer, or not an integer
Invocations ==
    [agent : BOOLEAN, command : CliCommands, message : BOOLEAN,
     timeout : {"default", "int", "nonint"}]

\* parser.parse_args() calls parser.error, which exits with status 2:
\* --agent is required, the subcommand is one of the subparsers' names, send
\* and ask take exactly one positional, --timeout belongs to receive and ask
\* and has type=int
ArgError(inv) ==
    \/ ~inv.agent
    \/ inv.command = "bogus"
    \/ inv.command \in {"send", "ask"} /\ ~inv.message
    \/ inv.command \notin {"send", "ask"} /\ inv.message
    \/ inv.command \in {"receive", "ask"} /\ inv.timeout = "nonint"
    \/ inv.command \notin {"receive", "ask"} /\ inv.timeout # "default"

AMessage == Msg("message", "B", "x")

\* send_command could not connect, or timed out: the socket.error branch
Unreachable(c) == TimedOutReply(c)

\* what send_command can return for command c
Responses(c) ==
    {Unreachable(c), ClosedReply(c)} \cup
    ( IF c = "send"
      THEN {SendReply(<<>>, <<>>), SendReply(<<"B">>, <<>>),
            SendReply(<<"B">>, <<<<"C", <<"refused">>>>>>),
            UnreadError(<<AMessage>>)}
      ELSE IF c = "receive"
      THEN {ReceiveReply(<<>>, 30), ReceiveReply(<<AMessage>>, 30)}
      ELSE IF c = "status"
      THEN {StatusReply(<<>>, <<>>), StatusReply(<<"B">>, <<AMessage>>)}
      ELSE {UnknownCommand(c)} )

\* the worlds an invocation can meet: r1 answers its first command, r2 the
\* receive step of ask
Worlds(inv) ==
    IF ArgError(inv) \/ inv.command = "none"
    THEN {[sock |-> b, r1 |-> NoReply, r2 |-> NoReply] : b \in BOOLEAN}
    ELSE {[sock |-> FALSE, r1 |-> NoReply, r2 |-> NoReply]} \cup
         ( IF inv.command = "ask"
           THEN {[sock |-> TRUE, r1 |-> a, r2 |-> b] :
                    a \in Responses("send"), b \in Responses("receive")}
           ELSE {[sock |-> TRUE, r1 |-> a, r2 |-> NoReply] :
                    a \in Responses(inv.command)} )

\* cmd_ask: the send step, then the receive step
cmd_ask(w) ==
    IF w.r1.status # "ok" THEN [exit |-> 1, last |-> w.r1]
    ELSE [exit |-> ExitCode(w.r2), last |-> w.r2]

\* chat.py main, and sys.exit(main())
chat_main(inv, w) ==
    IF ArgError(inv) THEN [exit |-> 2, last |-> NoReply]
    ELSE IF inv.command = "none" THEN [exit |-> 1, last |-> NoReply]
    ELSE IF ~w.sock THEN [exit |-> 1, last |-> NoReply]
    ELSE IF inv.command = "ask" THEN cmd_ask(w)
    ELSE [exit |-> ExitCode(w.r1), last |-> w.r1]

Cli_Run(inv, w) ==
    /\ c_inv' = inv
    /\ c_world' = w
    /\ c_out' = chat_main(inv, w)

CliNext ==
    \E inv \in Invocations : \E w \in Worlds(inv) :
        Cli_Run(inv, w) /\ UNCHANGED exceptCli

SpecCli == Init /\ [][CliNext]_vars

\* C27. CLI exit codes: an invocation exits 2 exactly when its receive (or
\* the receive step of ask) got a status-ok reply with zero messages, 0
\* exactly when the daemon's reply has status ok otherwise (for send also
\* with failed peers), and 1 when the reply has status error or the daemon
\* could not be reached.
C27_ExitCodes ==
    LET r == c_out.last
        emptyReceive ==
            r.cmd = "receive" /\ r.status = "ok" /\ r.messages = <<>>
    IN  c_out.exit # -1
        => /\ c_out.exit = 2 <=> emptyReceive
           /\ c_out.exit = 0 <=> (r.status = "ok" /\ ~emptyReceive)
           /\ r.status = "error" => c_out.exit = 1

\* ================================================================
\* SpecLock: the threads of one daemon that touch Agent.members, statement
\* by statement: remote join and leave handlers, send handlers, status
\* handlers and the signal handler's snapshot.
\* ================================================================
LockKinds == {"join", "leave", "send", "status", "shutdown"}

\* where a thread of each kind starts
FirstPc(kind) ==
    CASE kind = "join" -> "join_lock"
      [] kind = "leave" -> "leave_test"
      [] kind = "send" -> "send_lock"
      [] kind = "status" -> "status_read"
      [] kind = "shutdown" -> "snap_lock"

\* "with self.members_lock:" and the statement it guards
AfterAcquire(pc) ==
    CASE pc = "join_lock" -> "join_set"
      [] pc = "leave_lock" -> "leave_del"
      [] pc = "send_lock" -> "send_refresh"
      [] pc = "snap_lock" -> "snap_read"

\* an access to Agent.members by thread i at a line of agent.py
Access(i, op, line) ==
    [thr |-> i, op |-> op, line |-> line, held |-> l_lock = i]

LStep(i, pc) == l_thr' = [l_thr EXCEPT ![i].pc = pc]

\* run_local_server starts a handler thread for a connection, or the main
\* thread enters signal_handler
L_Accept(i, kind, t) ==
    /\ l_thr[i].kind = "free"
    /\ kind = "shutdown" => \A j \in Threads : l_thr[j].kind # "shutdown"
    /\ l_thr' = [l_thr EXCEPT ![i] =
          [kind |-> kind, pc |-> FirstPc(kind),
           target |-> IF kind \in {"join", "leave"} THEN t ELSE "",
           got |-> {}]]
    /\ UNCHANGED <<l_members, l_lock, l_acc>>

\* "with self.members_lock:" entered
L_Acquire(i) ==
    /\ l_thr[i].pc \in {"join_lock", "leave_lock", "send_lock", "snap_lock"}
    /\ l_lock = 0
    /\ l_lock' = i
    /\ LStep(i, AfterAcquire(l_thr[i].pc))
    /\ UNCHANGED <<l_members, l_acc>>

\* the with block left
L_Release(i) ==
    /\ l_thr[i].pc \in {"unlock", "loop_unlock"}
    /\ l_lock' = 0
    /\ LStep(i, IF l_thr[i].pc = "unlock" THEN "done" ELSE "deliver")
    /\ UNCHANGED <<l_members, l_acc>>

\* handle_remote_message, join: self.members[sender_name] = sender
L_JoinSet(i) ==
    /\ l_thr[i].pc = "join_set"
    /\ l_members' = l_members \cup {l_thr[i].target}
    /\ l_acc' = Access(i, "write", 243)
    /\ LStep(i, "unlock")
    /\ UNCHANGED l_lock

\* handle_remote_message, leave: "if sender_name and sender_name in
\* self.members"
L_LeaveTest(i) ==
    /\ l_thr[i].pc = "leave_test"
    /\ l_acc' = Access(i, "read", 248)
    /\ LStep(i, IF l_thr[i].target \in l_members THEN "leave_lock" ELSE "done")
    /\ UNCHANGED <<l_members, l_lock>>

\* handle_remote_message, leave: del self.members[sender_name]; KeyError
\* leaves the with block and the handler
L_LeaveDel(i) ==
    /\ l_thr[i].pc = "leave_del"
    /\ l_acc' = Access(i, "write", 250)
    /\ IF l_thr[i].target \in l_members
       THEN /\ l_members' = l_members \ {l_thr[i].target}
            /\ LStep(i, "unlock")
            /\ UNCHANGED l_lock
       ELSE /\ l_lock' = 0
            /\ LStep(i, "failed")
            /\ UNCHANGED l_members

\* send_message_to_agents: the cache rebuilt from the registry, and its keys
\* listed
L_Refresh(i) ==
    /\ l_thr[i].pc = "send_refresh"
    /\ l_members' = Peers
    /\ l_acc' = Access(i, "write", 328)
    /\ l_thr' = [l_thr EXCEPT ![i].pc = "loop_unlock", ![i].got = Peers]
    /\ UNCHANGED l_lock

\* signal_handler: members_to_notify = list(agent.members.keys())
L_Snapshot(i) ==
    /\ l_thr[i].pc = "snap_read"
    /\ l_acc' = Access(i, "read", 535)
    /\ l_thr' = [l_thr EXCEPT ![i].pc = "loop_unlock", ![i].got = l_members]
    /\ UNCHANGED <<l_members, l_lock>>

\* the loop over the names listed: send_to_agent(agent_name, msg) returns
\* without an exception caught (reached), or enters its except clause
L_Deliver(i, reached) ==
    /\ l_thr[i].pc = "deliver"
    /\ IF l_thr[i].got = {}
       THEN LStep(i, "done")
       ELSE \E t \in l_thr[i].got :
              l_thr' = [l_thr EXCEPT
                 ![i].got = @ \ {t},
                 ![i].target = t,
                 ![i].pc = IF reached THEN "deliver" ELSE "fail_test"]
    /\ UNCHANGED <<l_members, l_lock, l_acc>>

\* send_to_agent's except clause: "if target_name in self.members"
L_FailTest(i) ==
    /\ l_thr[i].pc = "fail_test"
    /\ l_acc' = Access(i, "read", 228)
    /\ LStep(i, IF l_thr[i].target \in l_members THEN "fail_del" ELSE "deliver")
    /\ UNCHANGED <<l_members, l_lock>>

\* send_to_agent's except clause: del self.members[target_name]; KeyError
\* leaves send_to_agent (the signal handler's loop swallows it)
L_FailDel(i) ==
    /\ l_thr[i].pc = "fail_del"
    /\ l_acc' = Access(i, "write", 229)
    /\ IF l_thr[i].target \in l_members
       THEN /\ l_members' = l_members \ {l_thr[i].target}
            /\ LStep(i, "deliver")
       ELSE /\ LStep(i, IF l_thr[i].kind = "shutdown" THEN "deliver" ELSE "failed")
            /\ UNCHANGED l_members
    /\ UNCHANGED l_lock

\* handle_command 'status': the reply refers to self.members itself
L_StatusRead(i) ==
    /\ l_thr[i].pc = "status_read"
    /\ l_acc' = Access(i, "read", 427)
    /\ LStep(i, "status_send")
    /\ UNCHANGED <<l_members, l_lock>>

\* send_framed_message: json.dumps(response) walks the map the reply
\* refers to
L_StatusSend(i) ==
    /\ l_thr[i].pc = "status_send"
    /\ l_acc' = Access(i, "read", 185)
    /\ l_thr' = [l_thr EXCEPT ![i].pc = "done", ![i].got = l_members]
    /\ UNCHANGED <<l_members, l_lock>>

LockNext ==
    \/ \E i \in Threads, k \in LockKinds, t \in Peers :
          L_Accept(i, k, t) /\ UNCHANGED exceptLock
    \/ \E i \in Threads : L_Acquire(i) /\ UNCHANGED exceptLock
    \/ \E i \in Threads : L_Release(i) /\ UNCHANGED exceptLock
    \/ \E i \in Threads : L_JoinSet(i) /\ UNCHANGED exceptLock
    \/ \E i \in Threads : L_LeaveTest(i) /\ UNCHANGED exceptLock
    \/ \E i \in Threads : L_LeaveDel(i) /\ UNCHANGED exceptLock
    \/ \E i \in Threads : L_Refresh(i) /\ UNCHANGED exceptLock
    \/ \E i \in Threads : L_Snapshot(i) /\ UNCHANGED exceptLock
    \/ \E i \in Threads, reached \in BOOLEAN :
          L_Deliver(i, reached) /\ UNCHANGED exceptLock
    \/ \E i \in Threads : L_FailTest(i) /\ UNCHANGED exceptLock
    \/ \E i \in Threads : L_FailDel(i) /\ UNCHANGED exceptLock
    \/ \E i \in Threads : L_StatusRead(i) /\ UNCHANGED exceptLock
    \/ \E i \in Threads : L_StatusSend(i) /\ UNCHANGED exceptLock

SpecLock == Init /\ [][LockNext]_vars

\* ----------------------------------------------------- claims (SpecLock)
\* C33. Members-map locking discipline: every read and every mutation of
\* Agent.members is made by a thread that holds members_lock at that moment
\* (which includes the status reply being built from a copy taken under the
\* lock).
C33_MembersLocked == l_acc.op # "none" => l_acc.held

\* ================================================================
\* SpecRecv: daemon A, serving, is handed remote_message envelopes of any
\* type from any sender name (its socket accepts every local client), one
\* at a time, between receives and sends of its own.
\* ================================================================
\* envelopes dispatched between two receives
MaxHeld == 2

Me == "A"

\* message types: the three the protocol names and one it does not
EnvelopeTypes == {"join", "leave", "message", "ping"}

\* sender.name: any agent, the daemon itself, or none
SenderNames == Names \cup {""}

\* registry.json while A serves: A, B and C listed
RecvRegistry == <<"A", "B", "C">>

\* _handle_connection dispatches a remote_message envelope to
\* handle_remote_message and sends what it returns
V_Remote(type, sender) ==
    /\ Len(v_world.traffic[Me]) < MaxHeld
    /\ v_world' = handle_remote_message(v_world, Me, Msg(type, sender, "x"),
                                        Note(type, sender, "x"))
    /\ v_resp' = "ok"

\* handle_command 'receive' with timeout 0: whatever is queued is drained
V_Receive ==
    /\ v_world' = [v_world EXCEPT
          !.event[Me] = FALSE,
          !.queue[Me] = <<>>,
          !.unread[Me] = clear_unread_file(@),
          !.traffic[Me] = <<>>]
    /\ v_resp' = "none"

\* handle_command 'send' past the gate: the members cache refreshed
V_Refresh ==
    /\ ~SendRefused(v_world.queue[Me])
    /\ v_world' = [v_world EXCEPT
          !.members[Me] = RefreshMembers(RecvRegistry, Me)]
    /\ v_resp' = "none"

RecvNext ==
    \/ \E type \in EnvelopeTypes, sender \in SenderNames :
          V_Remote(type, sender) /\ UNCHANGED exceptRecv
    \/ V_Receive /\ UNCHANGED exceptRecv
    \/ V_Refresh /\ UNCHANGED exceptRecv

SpecRecv == Init /\ [][RecvNext]_vars

\* ----------------------------------------------------- claims (SpecRecv)
\* C34. Reception by message type: a join from a named sender other than
\* the daemon adds the sender to members, and every join is enqueued; a
\* leave from a cached sender removes it, and every leave is enqueued; a
\* message is enqueued if and only if its sender is not the daemon; in every
\* case the unread file holds the queue depth when the queue is non-empty,
\* the event is set and the handler returns status ok.  The queue never holds
\* a message whose sender is the daemon, and members never holds the daemon.
C34_ReceptionByType ==
    [][/\ \A type \in EnvelopeTypes, sender \in SenderNames :
            V_Remote(type, sender)
            => LET m == Msg(type, sender, "x")
                   q == v_world.queue[Me]
                   q2 == v_world'.queue[Me]
                   mem == SeqSet(v_world.members[Me])
                   mem2 == SeqSet(v_world'.members[Me])
               IN  /\ (type = "join" /\ sender \notin {"", Me})
                         => mem2 = mem \cup {sender}
                   /\ type = "join" => q2 = Append(q, m)
                   /\ (type = "leave" /\ sender \in mem)
                         => mem2 = mem \ {sender}
                   /\ type = "leave" => q2 = Append(q, m)
                   /\ type = "message"
                         => /\ sender # Me => q2 = Append(q, m)
                            /\ sender = Me => q2 = q
                   /\ type \notin {"join", "leave"} => mem2 = mem
                   /\ type \notin {"join", "leave", "message"} => q2 = q
                   /\ q2 # <<>> => v_world'.unread[Me] = <<Len(q2)>>
                   /\ v_world'.event[Me]
                   /\ v_resp' = "ok"
       /\ \A k \in 1..Len(v_world'.queue[Me]) :
            v_world'.queue[Me][k].type = "message"
            => v_world'.queue[Me][k].sender # Me
       /\ Me \notin SeqSet(v_world'.members[Me])]_vars

\* A was handed a message from itself and then a join from B: only the join
\* is queued, B is cached, the event is set
C34_Witness ==
    /\ v_world.traffic[Me] = <<Note("message", Me, "x"), Note("join", "B", "x")>>
    /\ v_world.queue[Me] = <<Msg("join", "B", "x")>>
    /\ "B" \in SeqSet(v_world.members[Me])
    /\ v_world.event[Me]
    /\ v_resp = "ok"

====
